---------------------------- MODULE Spec2Model ----------------------------
(***************************************************************************)
(* A model of the Mol* structure core:                                     *)
(*   - Structure (mol-model/structure/structure/structure.ts): provenance, *)
(*     model resolution, hashing, the lazily derived property cache, the   *)
(*     constructor, transform, StructureBuilder, the decomposition of a    *)
(*     chain into units, ofModel and ofTrajectory;                         *)
(*   - the atom query engine (atoms / atomGroupsLinear /                   *)
(*     atomGroupsSegmented / atomGroupsGrouped / LinearGroupingBuilder);   *)
(*   - the compact graph (IntGraph.EdgeBuilder), driven as its test drives *)
(*     it.                                                                 *)
(* Each part has its own specification over its own variables; the        *)
(* variables of the other parts stay at their idle value.                 *)
(*                                                                         *)
(* JavaScript values: arrays are 0-based, so they are functions over      *)
(* 0..n-1 here; a value that may be `undefined` is a sequence of length   *)
(* at most one (<<>> is undefined, <<v>> is v); a sparse array is a       *)
(* function whose domain holds the assigned slots only.                   *)
(***************************************************************************)
EXTENDS Integers, Sequences, FiniteSets, TLC

VARIABLES
    structures,    \* the Structure instances created so far
    returned,      \* per Structure: what its getters have returned so far
    log,           \* per Structure: the constructor call that made it, and how often
                   \* each derived property was computed; for a builder, the
                   \* calls made on it
    model,         \* partitioning: the atomic hierarchy of the input model
    chain,         \* partitioning: the element indices of the chain being split
    builder,       \* partitioning: the StructureBuilder
    partitioned,   \* partitioning: what the last partitioner call did
    query,         \* queries: the structure and the predicate a query runs on
    selections,    \* queries: the selection each strategy returned
    xs, ys,        \* graph: the input edge list
    edgeBuilder,   \* graph: the IntGraph.EdgeBuilder
    prop,          \* graph: the caller's property array
    graph          \* graph: the finished graph

structureVars == <<structures, returned, log>>
partitionVars == <<model, chain, builder, partitioned>>
queryVars     == <<query, selections>>
graphVars     == <<xs, ys, edgeBuilder, prop, graph>>
vars == <<structureVars, partitionVars, queryVars, graphVars>>

\* The value of the variables of a part that is not running.
Idle == <<>>

StructureIdle == structures = Idle /\ returned = Idle /\ log = Idle
PartitionIdle == model = Idle /\ chain = Idle /\ builder = Idle /\ partitioned = Idle
QueryIdle     == query = Idle /\ selections = Idle
GraphIdle     == xs = Idle /\ ys = Idle /\ edgeBuilder = Idle /\ prop = Idle /\ graph = Idle

(***************************************************************************)
(* JavaScript helpers                                                      *)
(***************************************************************************)

Undefined == <<>>
Some(v) == <<v>>
IsDefined(x) == x # Undefined
ValueOf(x) == x[1]

\* arr[i] of a JavaScript array of length n: undefined out of range.
ArrayGet(arr, i) == IF i \in DOMAIN arr THEN Some(arr[i]) ELSE Undefined

\* a 0-based array from a sequence, and back
ArrayOf(s) == [i \in 0..(Len(s) - 1) |-> s[i + 1]]
ArrayLen(arr) == Cardinality(DOMAIN arr)
SeqOf(arr) == [i \in 1..ArrayLen(arr) |-> arr[i - 1]]

RECURSIVE SumSeq(_)
SumSeq(s) == IF s = <<>> THEN 0 ELSE Head(s) + SumSeq(Tail(s))

SeqRange(s) == {s[i] : i \in DOMAIN s}


(***************************************************************************)
(* Compact graph: IntGraph.EdgeBuilder and the graph it creates.           *)
(* mol-math/graph/int/graph.ts is not among the sources; the builder is    *)
(* modelled from the design (two directed slots per input edge, property   *)
(* values assigned per slot during the traversal, createGraph ordering     *)
(* every vertex's slots by neighbour id so that getEdgeIndex can search    *)
(* them) and from the way int-graph.spec.ts drives it.                     *)
(***************************************************************************)

\* int-graph.spec.ts: const vc = 3
vertexCount == 3
\* the longest input edge list
MaxEdges == 3

Vertices == 0..(vertexCount - 1)

\* int-graph.spec.ts: _prop = [10, 11, 12], the value of the i-th input edge
PropValue(i) == 10 + i

\* Input edge lists: any edges between distinct vertices, in any direction,
\* the same edge possibly more than once.
EdgeLists ==
    UNION {[1..n -> {e \in Vertices \X Vertices : e[1] # e[2]}] : n \in 0..MaxEdges}

\* The number of times v occurs in the 0-based array arr.
Occurrences(arr, v) == Cardinality({i \in DOMAIN arr : arr[i] = v})

\* EdgeBuilder constructor: the number of slots of each vertex.
BucketSizes(x, y) == [v \in Vertices |-> Occurrences(x, v) + Occurrences(y, v)]

RECURSIVE SumBelow(_, _)
SumBelow(sizes, v) == IF v = 0 THEN 0 ELSE sizes[v - 1] + SumBelow(sizes, v - 1)

\* new IntGraph.EdgeBuilder(vc, xs, ys)
NewEdgeBuilder(x, y) ==
    LET sizes == BucketSizes(x, y)
        offsets == [v \in 0..vertexCount |-> SumBelow(sizes, v)]
        slots == offsets[vertexCount]
    IN  [ edgeCount  |-> ArrayLen(x),
          slotCount  |-> slots,
          offsets    |-> offsets,
          bucketFill |-> [v \in Vertices |-> 0],
          a          |-> [t \in 0..(slots - 1) |-> 0],
          b          |-> [t \in 0..(slots - 1) |-> 0],
          current    |-> 0,
          curA       |-> 0,
          curB       |-> 0 ]

\* builder.addNextEdge(): the next input edge takes the next free slot of each
\* of its two endpoints.
addNextEdge(eb, x, y) ==
    LET va == x[eb.current]
        vb == y[eb.current]
        oa == eb.offsets[va] + eb.bucketFill[va]
        ob == eb.offsets[vb] + eb.bucketFill[vb]
        fillA == [eb.bucketFill EXCEPT ![va] = @ + 1]
        fillB == [fillA EXCEPT ![vb] = @ + 1]
    IN  [eb EXCEPT
            !.a = [@ EXCEPT ![oa] = va, ![ob] = vb],
            !.b = [@ EXCEPT ![oa] = vb, ![ob] = va],
            !.bucketFill = fillB,
            !.current = @ + 1,
            !.curA = oa,
            !.curB = ob]

\* builder.assignProperty(prop, value): both slots of the current edge.
assignProperty(eb, p, value) ==
    [t \in (DOMAIN p) \cup {eb.curA, eb.curB} |->
        IF t \in {eb.curA, eb.curB} THEN value ELSE p[t]]

\* The slots of vertex v.
SlotsOf(offsets, v) == offsets[v]..(offsets[v + 1] - 1)

\* The vertex whose bucket holds slot t.
OwnerOf(offsets, t) == CHOOSE v \in Vertices : t \in SlotsOf(offsets, v)

\* The position slot t takes when the slots of its vertex are sorted by
\* neighbour id (a stable sort: equal neighbours keep their order).
SortedPosition(eb, t) ==
    LET v == OwnerOf(eb.offsets, t)
        before == {u \in SlotsOf(eb.offsets, v) :
                      eb.b[u] < eb.b[t] \/ (eb.b[u] = eb.b[t] /\ u < t)}
    IN  eb.offsets[v] + Cardinality(before)

\* The slot that ends at position t.
SlotAt(eb, t) == CHOOSE u \in DOMAIN eb.b : SortedPosition(eb, u) = t

\* as AttachProperty, leaving the property array in traversal order
AttachPropertyUnpermuted(eb, p) == p

\* createGraph: a property array follows the slots into their sorted order.
AttachProperty(eb, p) ==
    [t \in {SortedPosition(eb, u) : u \in DOMAIN p} |-> p[SlotAt(eb, t)]]

\* builder.createGraph({ prop })
createGraph(eb, p) ==
    [ vertexCount |-> vertexCount,
      edgeCount   |-> eb.edgeCount,
      offset      |-> eb.offsets,
      a           |-> [t \in DOMAIN eb.a |-> eb.a[SlotAt(eb, t)]],
      b           |-> [t \in DOMAIN eb.b |-> eb.b[SlotAt(eb, t)]],
      prop        |-> AttachProperty(eb, p) ]

\* Binary search for x in arr[lo..hi], -1 when it is absent.
RECURSIVE BinarySearch(_, _, _, _)
BinarySearch(arr, lo, hi, x) ==
    IF lo > hi THEN -1
    ELSE LET mid == (lo + hi) \div 2
         IN  IF arr[mid] = x THEN mid
             ELSE IF arr[mid] < x THEN BinarySearch(arr, mid + 1, hi, x)
             ELSE BinarySearch(arr, lo, mid - 1, x)

\* graph.getEdgeIndex(i, j): the slot of the edge i -> j, -1 when there is none
getEdgeIndex(g, i, j) == BinarySearch(g.b, g.offset[i], g.offset[i + 1] - 1, j)

\* as getVertexEdgeCount, taking the end offset as inclusive
getVertexEdgeCountInclusive(g, i) == g.offset[i + 1] - g.offset[i] + 1

\* graph.getVertexEdgeCount(i)
getVertexEdgeCount(g, i) == g.offset[i + 1] - g.offset[i]

NoGraph == Undefined

\* The graph part runs alone.
GraphOnly == UNCHANGED <<structureVars, partitionVars, queryVars>>

GraphInit ==
    /\ \E es \in EdgeLists :
          /\ xs = ArrayOf([i \in DOMAIN es |-> es[i][1]])
          /\ ys = ArrayOf([i \in DOMAIN es |-> es[i][2]])
    /\ edgeBuilder = NewEdgeBuilder(xs, ys)
    /\ prop = <<>>
    /\ graph = NoGraph
    /\ StructureIdle /\ PartitionIdle /\ QueryIdle

\* One turn of the test's loop: builder.addNextEdge(); builder.assignProperty(prop, _prop[i])
AddNextEdge ==
    /\ graph = NoGraph
    /\ edgeBuilder.current < edgeBuilder.edgeCount
    /\ LET eb == addNextEdge(edgeBuilder, xs, ys)
       IN  /\ edgeBuilder' = eb
           /\ prop' = assignProperty(eb, prop, PropValue(edgeBuilder.current))
    /\ UNCHANGED <<xs, ys, graph>>
    /\ GraphOnly

\* const graph = builder.createGraph({ prop }), after the loop
CreateGraph ==
    /\ graph = NoGraph
    /\ edgeBuilder.current = edgeBuilder.edgeCount
    /\ graph' = Some(createGraph(edgeBuilder, prop))
    /\ UNCHANGED <<xs, ys, edgeBuilder, prop>>
    /\ GraphOnly

GraphNext == AddNextEdge \/ CreateGraph

SpecGraph == GraphInit /\ [][GraphNext]_vars

\* The input edges as a set of undirected edges.
InputEdge(i) == {xs[i], ys[i]}
DistinctEdges == \A i, j \in DOMAIN xs : InputEdge(i) = InputEdge(j) => i = j
Finished == graph # NoGraph
G == ValueOf(graph)

\* C5 (as stated): in the finished graph, for every input edge i,
\* prop[getEdgeIndex(x_i, y_i)] = value_i, and the opposite slot
\* getEdgeIndex(y_i, x_i) holds the same value.
C5_PropertyFollowsEdge_AnyInput ==
    Finished =>
        \A i \in DOMAIN xs :
            /\ getEdgeIndex(G, xs[i], ys[i]) \in DOMAIN G.prop
            /\ G.prop[getEdgeIndex(G, xs[i], ys[i])] = PropValue(i)
            /\ getEdgeIndex(G, ys[i], xs[i]) \in DOMAIN G.prop
            /\ G.prop[getEdgeIndex(G, ys[i], xs[i])] = PropValue(i)

\* C5 (amended): the same, for input edge lists in which no undirected edge
\* occurs twice.
C5_PropertyFollowsEdge ==
    (Finished /\ DistinctEdges) =>
        \A i \in DOMAIN xs :
            /\ getEdgeIndex(G, xs[i], ys[i]) \in DOMAIN G.prop
            /\ G.prop[getEdgeIndex(G, xs[i], ys[i])] = PropValue(i)
            /\ getEdgeIndex(G, ys[i], xs[i]) \in DOMAIN G.prop
            /\ G.prop[getEdgeIndex(G, ys[i], xs[i])] = PropValue(i)

\* The test's triangle, finished: vertex 2 got its slots in the order
\* (neighbour 1, neighbour 0), which createGraph has to reorder.
C5_Witness ==
    /\ Finished
    /\ SeqOf(xs) = <<0, 1, 2>> /\ SeqOf(ys) = <<1, 2, 0>>
    /\ edgeBuilder.b[4] = 1 /\ G.b[4] = 0
    /\ G.prop[getEdgeIndex(G, 2, 0)] = 12

\* C6: for distinct undirected input edges without self-loops, edgeCount is
\* the number of input edges, slotCount twice that, and getVertexEdgeCount(v)
\* the number of input edges incident to v.
C6_EdgeAndVertexCounts ==
    (Finished /\ DistinctEdges) =>
        LET edgeSet == {InputEdge(i) : i \in DOMAIN xs}
        IN  /\ G.edgeCount = Cardinality(edgeSet)
            /\ edgeBuilder.slotCount = 2 * Cardinality(edgeSet)
            /\ \A v \in Vertices :
                  getVertexEdgeCount(G, v) = Cardinality({e \in edgeSet : v \in e})

\* A finished path 0 - 1 - 2: vertex 1 has two edges, the others one.
C6_Witness ==
    /\ Finished /\ DistinctEdges
    /\ G.edgeCount = 2
    /\ getVertexEdgeCount(G, 1) = 2 /\ getVertexEdgeCount(G, 0) = 1

(***************************************************************************)
(* Query engine (atoms and its three strategies, LinearGroupingBuilder).   *)
(* A hierarchy gives, over the atoms 0..n-1 of a model, the offsets of the *)
(* residue segments and of the chain segments and the entity of every      *)
(* chain.  An AtomSet is a sequence of [unit, atoms] entries, one per unit *)
(* id, atoms being the unit's ordered set as a 0-based array.  A predicate *)
(* is the set of keys (entity, chain, residue or atom) it accepts.         *)
(* mol-data/int (OrderedSet, Segmentation) and AtomSet.LinearBuilder are   *)
(* not among the sources; they are modelled from the design.               *)
(***************************************************************************)

\* the number of atoms of the model queried
MaxAtoms == 4

Atoms == 0..(MaxAtoms - 1)

\* Offsets 0 = o[0] < o[1] < ... < o[k] = n with the given inner boundaries.
OffsetsOf(inner, n) ==
    LET pts == inner \cup {0, n}
    IN  [i \in 0..(Cardinality(pts) - 1) |->
            CHOOSE x \in pts : Cardinality({y \in pts : y < x}) = i]

\* Every residue segmentation of the atoms, in one chain or in two chains
\* made of whole residues; the entities alternate along the chains.
Hierarchies ==
    {[residueSegments |-> OffsetsOf(bb[1], MaxAtoms),
      chainSegments |-> OffsetsOf(bb[2], MaxAtoms)] :
        bb \in {cc \in (SUBSET (1..(MaxAtoms - 1))) \X (SUBSET (1..(MaxAtoms - 1))) :
                  cc[2] \subseteq cc[1] /\ Cardinality(cc[2]) <= 1}}

\* The index of the segment of `offsets` that holds atom.
SegmentIndex(offsets, atom) ==
    CHOOSE i \in 0..(ArrayLen(offsets) - 2) : offsets[i] <= atom /\ atom < offsets[i + 1]

\* P.residue.key, P.chain.key, P.entity.key at a location
residueKey(h, atom) == SegmentIndex(h.residueSegments, atom)
chainKey(h, atom) == SegmentIndex(h.chainSegments, atom)
entityKey(h, atom) == chainKey(h, atom) % 2

\* The ordered set holding the atoms of S.
OrderedSetOf(S) ==
    [i \in 0..(Cardinality(S) - 1) |-> CHOOSE x \in S : Cardinality({y \in S : y < x}) = i]

\* The elements (unit, atom) of an AtomSet.
Elements(atomSet) ==
    {<<atomSet[i].unit, atomSet[i].atoms[j]>> :
        <<i, j>> \in {ij \in (DOMAIN atomSet) \X Atoms : ij[2] \in DOMAIN atomSet[ij[1]].atoms}}

\* Segmentation.transientSegments(segments, set), moved over the positions
\* from..to-1 of set: the maximal runs of positions whose atoms lie in one
\* segment, each as [index, start, end), end exclusive.
RECURSIVE Segments(_, _, _, _)
Segments(offsets, set, from, to) ==
    IF from >= to THEN <<>>
    ELSE LET index == SegmentIndex(offsets, set[from])
             after == {q \in (from + 1)..(to - 1) : set[q] >= offsets[index + 1]}
             end == IF after = {} THEN to ELSE CHOOSE q \in after : \A r \in after : q <= r
         IN  <<[index |-> index, start |-> from, end |-> end]>>
                 \o Segments(offsets, set, end, to)

\* Selection.Singletons, Selection.Sequence, Selection.Empty
Singletons(atomSet) == [kind |-> "Singletons", set |-> atomSet, sets |-> <<>>]
Sequence(sets) == [kind |-> "Sequence", set |-> <<>>, sets |-> sets]
Empty == [kind |-> "Empty", set |-> <<>>, sets |-> <<>>]

\* AtomSet.LinearBuilder: commitUnit(unitId) keeps a unit that got atoms.
commitUnit(committed, unitId, atoms) ==
    IF atoms = <<>> THEN committed
    ELSE Append(committed, [unit |-> unitId, atoms |-> ArrayOf(atoms)])

\* export const all: Query = s => Selection.Singletons(s, s.atoms)
all(structure) == Singletons(structure.atoms)

\* P.constant.true: the predicate accepting every key
constantTrue == 0..MaxAtoms

\* the for loop of atomGroupsLinear over the atoms j..n-1 of one unit
RECURSIVE LinearScan(_, _, _)
LinearScan(set, atomTest, j) ==
    IF j >= ArrayLen(set) THEN <<>>
    ELSE (IF set[j] \in atomTest THEN <<set[j]>> ELSE <<>>)
            \o LinearScan(set, atomTest, j + 1)

\* atomGroupsLinear(atomTest)(structure), from unit i on
RECURSIVE LinearUnits(_, _, _, _)
LinearUnits(structure, atomTest, i, committed) ==
    IF i > Len(structure.atoms) THEN committed
    ELSE LinearUnits(structure, atomTest, i + 1,
            commitUnit(committed, structure.atoms[i].unit,
                       LinearScan(structure.atoms[i].atoms, atomTest, 0)))

atomGroupsLinear(atomTest, structure) ==
    Singletons(LinearUnits(structure, atomTest, 1, <<>>))

\* as ResidueAtoms, leaving out the last atom of the residue segment
ResidueAtomsShort(set, atomTest, j, end) ==
    LinearScan([k \in {q \in DOMAIN set : q < end - 1} |-> set[k]], atomTest, j)

\* the innermost loop of the segmented strategies: the atoms j..end-1 of a
\* residue segment that pass atomTest
RECURSIVE ResidueAtoms(_, _, _, _)
ResidueAtoms(set, atomTest, j, end) ==
    IF j >= end THEN <<>>
    ELSE (IF set[j] \in atomTest THEN <<set[j]>> ELSE <<>>)
            \o ResidueAtoms(set, atomTest, j + 1, end)

\* while (residuesIt.hasNext): the atoms kept from the residue segments rs[k..]
RECURSIVE ResidueLoop(_, _, _, _, _)
ResidueLoop(h, set, params, rs, k) ==
    IF k > Len(rs) THEN <<>>
    ELSE (IF residueKey(h, set[rs[k].start]) \notin params.residueTest THEN <<>>
          ELSE ResidueAtoms(set, params.atomTest, rs[k].start, rs[k].end))
            \o ResidueLoop(h, set, params, rs, k + 1)

\* while (chainsIt.hasNext): the atoms kept from the chain segments cs[k..]
RECURSIVE ChainLoop(_, _, _, _, _)
ChainLoop(h, set, params, cs, k) ==
    IF k > Len(cs) THEN <<>>
    ELSE (IF \/ entityKey(h, set[cs[k].start]) \notin params.entityTest
             \/ chainKey(h, set[cs[k].start]) \notin params.chainTest
          THEN <<>>
          ELSE ResidueLoop(h, set, params,
                   Segments(h.residueSegments, set, cs[k].start, cs[k].end), 1))
            \o ChainLoop(h, set, params, cs, k + 1)

\* The atoms of one unit that the segmented scan keeps, in scan order.
SegmentedScan(h, set, params) ==
    ChainLoop(h, set, params, Segments(h.chainSegments, set, 0, ArrayLen(set)), 1)

\* atomGroupsSegmented(params)(structure), from unit i on
RECURSIVE SegmentedUnits(_, _, _, _)
SegmentedUnits(structure, params, i, committed) ==
    IF i > Len(structure.atoms) THEN committed
    ELSE SegmentedUnits(structure, params, i + 1,
            commitUnit(committed, structure.atoms[i].unit,
                       SegmentedScan(structure.hierarchy, structure.atoms[i].atoms, params)))

atomGroupsSegmented(params, structure) ==
    Singletons(SegmentedUnits(structure, params, 1, <<>>))

\* LinearGroupingBuilder: the keys in first-seen order (builderMap) and, per
\* key, the (unit, atom) pairs added to its builder (builders).
NewGroupingBuilder == [keys |-> <<>>, builders |-> <<>>]

\* as add, looking for the key at the builder made last only
addByLastKey(gb, key, unit, atom) ==
    IF Len(gb.keys) > 0 /\ gb.keys[Len(gb.keys)] = key
    THEN [gb EXCEPT !.builders[Len(gb.keys)] = Append(@, <<unit, atom>>)]
    ELSE [keys |-> Append(gb.keys, key),
          builders |-> Append(gb.builders, <<<<unit, atom>>>>)]

\* LinearGroupingBuilder.add(key, unit, atom)
add(gb, key, unit, atom) ==
    IF \E i \in DOMAIN gb.keys : gb.keys[i] = key
    THEN LET i == CHOOSE k \in DOMAIN gb.keys : gb.keys[k] = key
         IN  [gb EXCEPT !.builders[i] = Append(@, <<unit, atom>>)]
    ELSE [keys |-> Append(gb.keys, key),
          builders |-> Append(gb.builders, <<<<unit, atom>>>>)]

\* AtomSet.ofAtoms / Builder.getSet: the AtomSet holding the given pairs,
\* by ascending unit id.
AtomSetOf(pairs) ==
    LET units == {e[1] : e \in pairs}
        ids == OrderedSetOf(units)
    IN  [i \in 1..Cardinality(units) |->
            [unit |-> ids[i - 1],
             atoms |-> OrderedSetOf({e[2] : e \in {f \in pairs : f[1] = ids[i - 1]}})]]

\* as allSingletons, looking at the first builder only
allSingletonsFirstOnly(gb) == Len(gb.builders[1]) <= 1

\* LinearGroupingBuilder.allSingletons
allSingletons(gb) == \A i \in DOMAIN gb.builders : ~(Len(gb.builders[i]) > 1)

\* LinearGroupingBuilder.singletonSelection
singletonSelection(gb) ==
    Singletons(AtomSetOf({gb.builders[i][1] : i \in DOMAIN gb.builders}))

\* LinearGroupingBuilder.fullSelection
fullSelection(gb) ==
    Sequence([i \in DOMAIN gb.builders |-> AtomSetOf(SeqRange(gb.builders[i]))])

\* LinearGroupingBuilder.getSelection
getSelection(gb) ==
    IF Len(gb.builders) = 0 THEN Empty
    ELSE IF allSingletons(gb) THEN singletonSelection(gb)
    ELSE fullSelection(gb)

\* the group-by properties: P.residue.key, P.chain.key and the atom itself
GroupBys == {"residue", "chain", "atom"}
groupKey(groupBy, h, atom) ==
    CASE groupBy = "residue" -> residueKey(h, atom)
      [] groupBy = "chain" -> chainKey(h, atom)
      [] OTHER -> atom

\* builder.add(groupBy(l), unitId, l.atom) for the atoms kept[k..] of a unit
RECURSIVE AddKept(_, _, _, _, _, _)
AddKept(gb, h, groupBy, unitId, kept, k) ==
    IF k > Len(kept) THEN gb
    ELSE AddKept(add(gb, groupKey(groupBy, h, kept[k]), unitId, kept[k]),
                 h, groupBy, unitId, kept, k + 1)

\* atomGroupsGrouped(params)(structure), from unit i on: the same loops over
\* chain and residue segments, every atom kept going to the builder of its key
RECURSIVE GroupedUnits(_, _, _, _)
GroupedUnits(structure, params, i, gb) ==
    IF i > Len(structure.atoms) THEN gb
    ELSE GroupedUnits(structure, params, i + 1,
            AddKept(gb, structure.hierarchy, ValueOf(params.groupBy), structure.atoms[i].unit,
                    SegmentedScan(structure.hierarchy, structure.atoms[i].atoms, params), 1))

atomGroupsGrouped(params, structure) ==
    getSelection(GroupedUnits(structure, params, 1, NewGroupingBuilder))

\* params.x || P.constant.true
OrTrue(test) == IF IsDefined(test) THEN ValueOf(test) ELSE constantTrue

\* as atoms, taking the linear scan whenever an atom test is given
atomsLinearFirst(params, structure) ==
    IF IsDefined(params.atomTest) THEN atomGroupsLinear(ValueOf(params.atomTest), structure)
    ELSE all(structure)

\* atoms(params)(structure): the strategy is chosen by the parameters given
atoms(params, structure) ==
    IF /\ ~IsDefined(params.atomTest) /\ ~IsDefined(params.residueTest)
       /\ ~IsDefined(params.chainTest) /\ ~IsDefined(params.entityTest)
       /\ ~IsDefined(params.groupBy)
    THEN all(structure)
    ELSE IF /\ IsDefined(params.atomTest) /\ ~IsDefined(params.residueTest)
            /\ ~IsDefined(params.chainTest) /\ ~IsDefined(params.entityTest)
            /\ ~IsDefined(params.groupBy)
    THEN atomGroupsLinear(ValueOf(params.atomTest), structure)
    ELSE LET normalized == [entityTest  |-> OrTrue(params.entityTest),
                            chainTest   |-> OrTrue(params.chainTest),
                            residueTest |-> OrTrue(params.residueTest),
                            atomTest    |-> OrTrue(params.atomTest),
                            groupBy     |-> params.groupBy]
         IN  IF ~IsDefined(params.groupBy) THEN atomGroupsSegmented(normalized, structure)
             ELSE atomGroupsGrouped(normalized, structure)

\* The LinearGroupingBuilder of atomGroupsGrouped at the end of the scan,
\* before getSelection, for the parameters as atoms() normalizes them.
groupingBuilder(params, structure) ==
    GroupedUnits(structure,
                 [entityTest  |-> OrTrue(params.entityTest),
                  chainTest   |-> OrTrue(params.chainTest),
                  residueTest |-> OrTrue(params.residueTest),
                  atomTest    |-> OrTrue(params.atomTest),
                  groupBy     |-> params.groupBy],
                 1, NewGroupingBuilder)

\* Partial<AtomQueryParams> with nothing set
NoParams ==
    [entityTest |-> Undefined, chainTest |-> Undefined, residueTest |-> Undefined,
     atomTest |-> Undefined, groupBy |-> Undefined]

\* The structures queried: no unit, one unit holding any atoms of the model,
\* or that unit and a second one holding every atom.
QueryStructures ==
    {[hierarchy |-> h, atoms |-> a] :
        h \in Hierarchies,
        a \in {<<>>}
            \cup {<<[unit |-> 0, atoms |-> OrderedSetOf(S)]>> : S \in (SUBSET Atoms) \ {{}}}
            \cup {<<[unit |-> 0, atoms |-> OrderedSetOf(S)],
                    [unit |-> 1, atoms |-> OrderedSetOf(Atoms)]>> : S \in (SUBSET Atoms) \ {{}}}}

\* The atom predicates: every atom, the atoms of even index, the last atom.
AtomTests == {Atoms, {x \in Atoms : x % 2 = 0}, {MaxAtoms - 1}}

\* The entity, chain and residue predicates given with the atom predicate:
\* all three always true, or one of them given (always true, or accepting the
\* first entity, the first chain, the residues of even index) and the others
\* left unset.
UpperTests ==
    { [entityTest |-> Some(constantTrue), chainTest |-> Some(constantTrue),
       residueTest |-> Some(constantTrue)],
      [entityTest |-> Undefined, chainTest |-> Undefined, residueTest |-> Some(constantTrue)],
      [entityTest |-> Some({0}), chainTest |-> Undefined, residueTest |-> Undefined],
      [entityTest |-> Undefined, chainTest |-> Some({0}), residueTest |-> Undefined],
      [entityTest |-> Undefined, chainTest |-> Undefined,
       residueTest |-> Some({x \in Atoms : x % 2 = 0})] }

NoSelections ==
    [all |-> Undefined, linear |-> Undefined, segmented |-> Undefined, grouped |-> Undefined]

\* The parameters of the segmented run and of the grouped run.
SegmentedParams == [query.tests EXCEPT !.atomTest = Some(query.atomTest)]
GroupedParams(groupBy) == [SegmentedParams EXCEPT !.groupBy = Some(groupBy)]

\* The query part runs alone.
QueryOnly == UNCHANGED <<structureVars, partitionVars, graphVars>>

QueryInit ==
    /\ query \in {[structure |-> st, atomTest |-> p,
                   tests |-> [entityTest |-> u.entityTest, chainTest |-> u.chainTest,
                              residueTest |-> u.residueTest, atomTest |-> Undefined,
                              groupBy |-> Undefined]] :
                     st \in QueryStructures, p \in AtomTests, u \in UpperTests}
    /\ selections = NoSelections
    /\ StructureIdle /\ PartitionIdle /\ GraphIdle

\* The queries run on the input one after the other.
\* atoms()(structure)
QueryAll ==
    /\ ~IsDefined(selections.all)
    /\ selections' = [selections EXCEPT !.all = Some(atoms(NoParams, query.structure))]
    /\ UNCHANGED query
    /\ QueryOnly

\* atoms({ atomTest })(structure)
QueryLinear ==
    /\ IsDefined(selections.all) /\ ~IsDefined(selections.linear)
    /\ selections' = [selections EXCEPT !.linear =
            Some(atoms([NoParams EXCEPT !.atomTest = Some(query.atomTest)], query.structure))]
    /\ UNCHANGED query
    /\ QueryOnly

\* atoms({ entityTest, chainTest, residueTest, atomTest })(structure)
QuerySegmented ==
    /\ IsDefined(selections.linear) /\ ~IsDefined(selections.segmented)
    /\ selections' = [selections EXCEPT !.segmented =
            Some(atoms(SegmentedParams, query.structure))]
    /\ UNCHANGED query
    /\ QueryOnly

\* atoms({ entityTest, chainTest, residueTest, atomTest, groupBy })(structure)
QueryGrouped ==
    /\ IsDefined(selections.segmented) /\ ~IsDefined(selections.grouped)
    /\ \E groupBy \in GroupBys :
          selections' = [selections EXCEPT !.grouped =
              Some([groupBy |-> groupBy,
                    builder |-> groupingBuilder(GroupedParams(groupBy), query.structure),
                    selection |-> atoms(GroupedParams(groupBy), query.structure)])]
    /\ UNCHANGED query
    /\ QueryOnly

QueryNext == QueryAll \/ QueryLinear \/ QuerySegmented \/ QueryGrouped

SpecQuery == QueryInit /\ [][QueryNext]_vars

\* The entity, chain and residue predicates of the run are all always true.
AllPass ==
    /\ OrTrue(query.tests.entityTest) = constantTrue
    /\ OrTrue(query.tests.chainTest) = constantTrue
    /\ OrTrue(query.tests.residueTest) = constantTrue

\* C3: the flat linear scan atoms({atomTest: p}) selects the same elements as
\* the segmented strategy run with atomTest p and entity, chain and residue
\* predicates all true; with p always true both select the elements of `all`.
C3_StrategiesAgree ==
    /\ (IsDefined(selections.segmented) /\ AllPass) =>
          Elements(ValueOf(selections.segmented).set) = Elements(ValueOf(selections.linear).set)
    /\ (IsDefined(selections.linear) /\ query.atomTest = Atoms) =>
          Elements(ValueOf(selections.linear).set) = Elements(ValueOf(selections.all).set)
    /\ (IsDefined(selections.segmented) /\ AllPass /\ query.atomTest = Atoms) =>
          Elements(ValueOf(selections.segmented).set) = Elements(ValueOf(selections.all).set)

\* Two units over two chains, the first unit with a gap, a predicate that
\* keeps some atoms and drops others: both strategies have run and kept
\* atoms of both units.
C3_Witness ==
    /\ IsDefined(selections.segmented) /\ AllPass
    /\ Len(query.structure.atoms) = 2
    /\ ArrayLen(query.structure.hierarchy.chainSegments) = 3
    /\ SeqOf(query.structure.atoms[1].atoms) = <<0, MaxAtoms - 1>>
    /\ query.atomTest = {x \in Atoms : x % 2 = 0}
    /\ Len(ValueOf(selections.segmented).set) = 2
    /\ ValueOf(selections.segmented).kind = "Singletons"

\* The elements of the queried structure that pass the four predicates, the
\* keys they group under and the group of a key.
Passing ==
    {e \in Elements(query.structure.atoms) :
        /\ entityKey(query.structure.hierarchy, e[2]) \in OrTrue(query.tests.entityTest)
        /\ chainKey(query.structure.hierarchy, e[2]) \in OrTrue(query.tests.chainTest)
        /\ residueKey(query.structure.hierarchy, e[2]) \in OrTrue(query.tests.residueTest)
        /\ e[2] \in query.atomTest}
GroupOf(groupBy, key) ==
    {e \in Passing : groupKey(groupBy, query.structure.hierarchy, e[2]) = key}
KeysOf(groupBy) == {groupKey(groupBy, query.structure.hierarchy, e[2]) : e \in Passing}

\* C4: after a grouped scan getSelection returns Empty when no element was
\* added, the singleton shape when every key's builder holds exactly one
\* element, and otherwise the sequence shape with one subset per key.
C4_SelectionShape ==
    IsDefined(selections.grouped) =>
        LET groupBy == ValueOf(selections.grouped).groupBy
            sel == ValueOf(selections.grouped).selection
        IN  IF Passing = {} THEN sel = Empty
            ELSE IF \A k \in KeysOf(groupBy) : Cardinality(GroupOf(groupBy, k)) = 1
            THEN /\ sel.kind = "Singletons" /\ sel.sets = <<>>
                 /\ Elements(sel.set) = Passing
            ELSE /\ sel.kind = "Sequence" /\ sel.set = <<>>
                 /\ Len(sel.sets) = Cardinality(KeysOf(groupBy))
                 /\ {Elements(sel.sets[i]) : i \in DOMAIN sel.sets}
                        = {GroupOf(groupBy, k) : k \in KeysOf(groupBy)}

\* Grouping by residue over one unit of two residues of sizes 1 and 3: the
\* sequence shape with two subsets, the first a single atom.
C4_Witness ==
    /\ IsDefined(selections.grouped)
    /\ ValueOf(selections.grouped).groupBy = "residue"
    /\ SeqOf(query.structure.hierarchy.residueSegments) = <<0, 1, 4>>
    /\ Len(query.structure.atoms) = 1
    /\ SeqOf(query.structure.atoms[1].atoms) = <<0, 1, 2, 3>>
    /\ Passing = Elements(query.structure.atoms)
    /\ ValueOf(selections.grouped).selection.kind = "Sequence"
    /\ Len(ValueOf(selections.grouped).selection.sets) = 2
    /\ Elements(ValueOf(selections.grouped).selection.sets[1]) = {<<0, 0>>}

\* The scan order of the elements: by position of the unit in the structure,
\* then by atom.
UnitPosition(unit) ==
    CHOOSE i \in DOMAIN query.structure.atoms : query.structure.atoms[i].unit = unit
ScannedBefore(e, f) ==
    \/ UnitPosition(e[1]) < UnitPosition(f[1])
    \/ UnitPosition(e[1]) = UnitPosition(f[1]) /\ e[2] <= f[2]
FirstOccurrence(groupBy, key) ==
    CHOOSE e \in GroupOf(groupBy, key) : \A f \in GroupOf(groupBy, key) : ScannedBefore(e, f)

\* C22: after a grouped scan the accumulator holds exactly one builder per
\* distinct key, in the order the keys were first seen; the builder of a key
\* holds, once each, the elements passing the four predicates that have this
\* key, so the groups are pairwise disjoint and their union is the set of
\* elements the segmented scan selects with the same predicates.
C22_OneBuilderPerKey ==
    IsDefined(selections.grouped) =>
        LET groupBy == ValueOf(selections.grouped).groupBy
            gb == ValueOf(selections.grouped).builder
            group(i) == SeqRange(gb.builders[i])
        IN  /\ Len(gb.builders) = Len(gb.keys)
            /\ SeqRange(gb.keys) = KeysOf(groupBy)
            /\ Len(gb.keys) = Cardinality(KeysOf(groupBy))
            /\ \A i, j \in DOMAIN gb.keys : i < j =>
                  /\ FirstOccurrence(groupBy, gb.keys[i]) # FirstOccurrence(groupBy, gb.keys[j])
                  /\ ScannedBefore(FirstOccurrence(groupBy, gb.keys[i]),
                                   FirstOccurrence(groupBy, gb.keys[j]))
            /\ \A i \in DOMAIN gb.keys :
                  /\ group(i) = GroupOf(groupBy, gb.keys[i])
                  /\ Len(gb.builders[i]) = Cardinality(group(i))
            /\ \A i, j \in DOMAIN gb.keys : i # j => group(i) \cap group(j) = {}
            /\ UNION {group(i) : i \in DOMAIN gb.keys}
                  = Elements(ValueOf(selections.segmented).set)

\* Grouping by residue over two units, the first holding the atoms 0 and 3
\* and the second every atom, with the residues {0}, {1, 2} and {3}: the
\* keys 0 and 2 come back in the second unit after the key 1 was seen, and
\* three builders hold the six elements.
C22_Witness ==
    /\ IsDefined(selections.grouped)
    /\ ValueOf(selections.grouped).groupBy = "residue"
    /\ SeqOf(query.structure.hierarchy.residueSegments) = <<0, 1, 3, 4>>
    /\ Len(query.structure.atoms) = 2
    /\ SeqOf(query.structure.atoms[1].atoms) = <<0, 3>>
    /\ Passing = Elements(query.structure.atoms)
    /\ ValueOf(selections.grouped).builder.keys = <<0, 2, 1>>
    /\ ValueOf(selections.grouped).builder.builders
          = << <<<<0, 0>>, <<1, 0>>>>, <<<<0, 3>>, <<1, 3>>>>, <<<<1, 1>>, <<1, 2>>>> >>

(***************************************************************************)
(* Structure builder and the partitioning of a chain into units            *)
(* (Structure.StructureBuilder, partitionAtomicUnitByAtom,                 *)
(* partitionAtomicUnitByResidue and the branch of ofModel that calls       *)
(* them).  GridLookup3D is an external collaborator: its buckets are any   *)
(* exact partition of the positions it is given, in any order.             *)
(***************************************************************************)

\* the number of atoms of the model that is decomposed
MaxChainAtoms == 4

\* Unit.create(id, invariantId, chainGroupId, traits, kind, model, operator, elements)
UnitCreate(id, invariantId, chainGroupId, traits, kind, m, operator, elements) ==
    [id |-> id, invariantId |-> invariantId, chainGroupId |-> chainGroupId,
     traits |-> traits, kind |-> kind, model |-> m, operator |-> operator,
     elements |-> elements]

\* new StructureBuilder(props): no units, idFactory() at 0, chainGroupId -1
NewStructureBuilder(props) ==
    [units |-> <<>>, invariantId |-> 0, chainGroupId |-> -1, inChainGroup |-> FALSE,
     props |-> props]

\* StructureBuilder.beginChainGroup
beginChainGroup(sb) == [sb EXCEPT !.chainGroupId = @ + 1, !.inChainGroup = TRUE]

\* StructureBuilder.endChainGroup
endChainGroup(sb) == [sb EXCEPT !.inChainGroup = FALSE]

\* An addUnit that opens no chain group of its own outside a bracket.
addUnitInLastGroup(sb, kind, m, operator, elements, traits) ==
    [sb EXCEPT
        !.units = Append(@, UnitCreate(Len(sb.units), sb.invariantId, sb.chainGroupId,
                                       traits, kind, m, operator, elements)),
        !.invariantId = @ + 1]

\* StructureBuilder.addUnit(kind, model, operator, elements, traits), the
\* invariantId taken from the builder's id factory
addUnit(sb, kind, m, operator, elements, traits) ==
    LET chainGroupId == IF sb.inChainGroup THEN sb.chainGroupId ELSE sb.chainGroupId + 1
    IN  [sb EXCEPT
            !.units = Append(@, UnitCreate(Len(sb.units), sb.invariantId, chainGroupId,
                                           traits, kind, m, operator, elements)),
            !.invariantId = @ + 1,
            !.chainGroupId = chainGroupId]

\* SortedArray.ofBounds(start, end): start, start + 1, ..., end - 1
ofBounds(start, end) == [i \in 0..(end - start - 1) |-> start + i]

\* The permutations of 0..n-1, as 0-based arrays.
PermutationsOf(n) ==
    {f \in [0..(n - 1) -> 0..(n - 1)] : \A i, j \in 0..(n - 1) : f[i] = f[j] => i = j}

\* GridLookup3D(...).buckets over n positions: { offset, count, array }, the
\* buckets being the consecutive non-empty runs array[offset[i] .. offset[i] + count[i] - 1].
Buckets(n) ==
    IF n = 0 THEN {[offset |-> <<>>, count |-> <<>>, array |-> <<>>]}
    ELSE {[offset |-> [i \in 0..Cardinality(cuts) |->
                          CHOOSE x \in cuts \cup {0} :
                              Cardinality({y \in cuts \cup {0} : y < x}) = i],
           count |-> [i \in 0..Cardinality(cuts) |->
                          LET from == CHOOSE x \in cuts \cup {0} :
                                          Cardinality({y \in cuts \cup {0} : y < x}) = i
                              later == {y \in cuts \cup {n} : y > from}
                          IN  (CHOOSE y \in later : \A z \in later : y <= z) - from],
           array |-> perm] :
             cuts \in SUBSET (1..(n - 1)), perm \in PermutationsOf(n)}

\* Unit.Trait: None, MultiChain, Patitioned as a set of flags
Traits(multiChain, buckets) ==
    (IF multiChain THEN {"MultiChain"} ELSE {})
        \cup (IF ArrayLen(buckets.offset) > 1 THEN {"Partitioned"} ELSE {})

\* for (let l = from, _l = to; l < _l; l++) set[set.length] = l, where _l may
\* be undefined: l < undefined is false
ElementRun(from, to) ==
    IF ~IsDefined(to) THEN <<>>
    ELSE [i \in 1..(IF ValueOf(to) > from THEN ValueOf(to) - from ELSE 0) |-> from + i - 1]

\* partitionAtomicUnitByAtom: the elements of bucket i from position j on
RECURSIVE AtomBucket(_, _, _, _)
AtomBucket(indices, buckets, i, j) ==
    IF j >= buckets.count[i] THEN <<>>
    ELSE <<indices[buckets.array[buckets.offset[i] + j]]>>
            \o AtomBucket(indices, buckets, i, j + 1)

\* partitionAtomicUnitByAtom: the loop over the buckets from bucket i on
RECURSIVE AtomBuckets(_, _, _, _, _, _)
AtomBuckets(sb, m, indices, buckets, traits, i) ==
    IF i >= ArrayLen(buckets.offset) THEN sb
    ELSE AtomBuckets(addUnit(sb, "atomic", m.id, "default",
                             ArrayOf(AtomBucket(indices, buckets, i, 0)), traits),
                     m, indices, buckets, traits, i + 1)

\* partitionAtomicUnitByAtom(model, indices, builder, multiChain)
partitionAtomicUnitByAtom(m, indices, sb, multiChain, buckets) ==
    endChainGroup(AtomBuckets(beginChainGroup(sb), m, indices, buckets,
                              Traits(multiChain, buckets), 0))

\* partitionAtomicUnitByResidue: startIndices and endIndices of the residue
\* segments of indices; indices[residueSegment.end] is undefined when the
\* segment ends where indices ends
startIndices(m, indices) ==
    LET rs == Segments(m.residueAtomSegments, indices, 0, ArrayLen(indices))
    IN  [k \in 0..(Len(rs) - 1) |-> indices[rs[k + 1].start]]
endIndices(m, indices) ==
    LET rs == Segments(m.residueAtomSegments, indices, 0, ArrayLen(indices))
    IN  [k \in 0..(Len(rs) - 1) |-> ArrayGet(indices, rs[k + 1].end)]

\* Bucket elements taken one position late: the atoms after the first of
\* each residue and the first atom of the next residue.
ResidueBucketLate(starts, ends, buckets, i, j) ==
    LET late(k) == ElementRun(starts[k] + 1,
                              IF IsDefined(ends[k]) THEN Some(ValueOf(ends[k]) + 1) ELSE ends[k])
    IN  IF buckets.count[i] = 0 THEN <<>>
        ELSE [q \in 1..SumSeq([n \in 1..buckets.count[i] |->
                                  Len(late(buckets.array[buckets.offset[i] + n - 1]))]) |->
                LET n == CHOOSE n \in 1..buckets.count[i] :
                            /\ SumSeq([x \in 1..(n - 1) |->
                                   Len(late(buckets.array[buckets.offset[i] + x - 1]))]) < q
                            /\ q <= SumSeq([x \in 1..n |->
                                   Len(late(buckets.array[buckets.offset[i] + x - 1]))])
                IN  late(buckets.array[buckets.offset[i] + n - 1])
                        [q - SumSeq([x \in 1..(n - 1) |->
                                Len(late(buckets.array[buckets.offset[i] + x - 1]))])]]

\* partitionAtomicUnitByResidue: the elements of bucket i from position j on
RECURSIVE ResidueBucket(_, _, _, _, _)
ResidueBucket(starts, ends, buckets, i, j) ==
    IF j >= buckets.count[i] THEN <<>>
    ELSE LET k == buckets.array[buckets.offset[i] + j]
         IN  ElementRun(starts[k], ends[k]) \o ResidueBucket(starts, ends, buckets, i, j + 1)

\* partitionAtomicUnitByResidue: the loop over the buckets from bucket i on
RECURSIVE ResidueBuckets(_, _, _, _, _, _, _)
ResidueBuckets(sb, m, starts, ends, buckets, traits, i) ==
    IF i >= ArrayLen(buckets.offset) THEN sb
    ELSE ResidueBuckets(addUnit(sb, "atomic", m.id, "default",
                                ArrayOf(ResidueBucket(starts, ends, buckets, i, 0)), traits),
                        m, starts, ends, buckets, traits, i + 1)

\* partitionAtomicUnitByResidue(model, indices, builder, multiChain)
partitionAtomicUnitByResidue(m, indices, sb, multiChain, buckets) ==
    endChainGroup(ResidueBuckets(beginChainGroup(sb), m, startIndices(m, indices),
                                 endIndices(m, indices), buckets,
                                 Traits(multiChain, buckets), 0))

\* ofModel: elements.length > 200000
LargeChain == 200000

\* The models decomposed: MaxChainAtoms atoms in any residue segmentation.
PartitionModels ==
    {[id |-> "m1", residueAtomSegments |-> OffsetsOf(inner, MaxChainAtoms)] :
        inner \in SUBSET (1..(MaxChainAtoms - 1))}

\* The elements of the chain: SortedArray.ofBounds(start, chains.offsets[c + 1])
ChainElements == ofBounds(chain.start, chain.end)

\* ofModel: the chain consists of single atom residues
singleAtomResidues ==
    Len(Segments(model.residueAtomSegments, ChainElements, 0, ArrayLen(ChainElements)))
        = chain.end - chain.start

\* The partitioning part runs alone.
PartitionOnly == UNCHANGED <<structureVars, queryVars, graphVars>>

\* A model, one of its chains (a run of whole residues), whether the chain
\* is water and whether it was merged from several single atom chains.
PartitionInit ==
    /\ model \in PartitionModels
    /\ chain \in {c \in [start : 0..MaxChainAtoms, end : 0..MaxChainAtoms,
                         multiChain : BOOLEAN, water : BOOLEAN] :
                    /\ c.start < c.end
                    /\ \E i, j \in DOMAIN model.residueAtomSegments :
                          /\ model.residueAtomSegments[i] = c.start
                          /\ model.residueAtomSegments[j] = c.end
                    /\ c.multiChain =>
                          \A i \in DOMAIN model.residueAtomSegments :
                              (c.start <= model.residueAtomSegments[i]
                                  /\ model.residueAtomSegments[i] < c.end)
                                => model.residueAtomSegments[i + 1]
                                       = model.residueAtomSegments[i] + 1}
    /\ builder = NewStructureBuilder([label |-> model.id])
    /\ partitioned = Undefined
    /\ StructureIdle /\ QueryIdle /\ GraphIdle

\* ofModel: if (singleAtomResidues) partitionAtomicUnitByAtom(...)
PartitionByAtom ==
    /\ ~IsDefined(partitioned)
    /\ singleAtomResidues
    /\ \E buckets \in Buckets(ArrayLen(ChainElements)) :
          /\ builder' = partitionAtomicUnitByAtom(model, ChainElements, builder,
                                                  chain.multiChain, buckets)
          /\ partitioned' = Some([by |-> "atom", buckets |-> buckets])
    /\ UNCHANGED <<model, chain>>
    /\ PartitionOnly

\* ofModel: else if (elements.length > 200000 || isWaterChain(model, c))
\*              partitionAtomicUnitByResidue(...)
PartitionByResidue ==
    /\ ~IsDefined(partitioned)
    /\ ~singleAtomResidues
    /\ ArrayLen(ChainElements) > LargeChain \/ chain.water
    /\ \E buckets \in Buckets(ArrayLen(startIndices(model, ChainElements))) :
          /\ builder' = partitionAtomicUnitByResidue(model, ChainElements, builder,
                                                     chain.multiChain, buckets)
          /\ partitioned' = Some([by |-> "residue", buckets |-> buckets])
    /\ UNCHANGED <<model, chain>>
    /\ PartitionOnly

\* ofModel: else builder.addUnit(Unit.Kind.Atomic, model, SymmetryOperator.Default,
\*                               elements, multiChain ? MultiChain : None)
AddChainUnit ==
    /\ ~IsDefined(partitioned)
    /\ ~singleAtomResidues
    /\ ~(ArrayLen(ChainElements) > LargeChain \/ chain.water)
    /\ builder' = addUnit(builder, "atomic", model.id, "default", ChainElements,
                          IF chain.multiChain THEN {"MultiChain"} ELSE {})
    /\ partitioned' = Some([by |-> "chain", buckets |-> <<>>])
    /\ UNCHANGED <<model, chain>>
    /\ PartitionOnly

PartitionNext == PartitionByAtom \/ PartitionByResidue \/ AddChainUnit

SpecPartition == PartitionInit /\ [][PartitionNext]_vars

\* The elements of the units the builder holds, and how many they are.
EmittedElements == UNION {{u.elements[i] : i \in DOMAIN u.elements} : u \in SeqRange(builder.units)}
EmittedCount == SumSeq([i \in DOMAIN builder.units |-> ArrayLen(builder.units[i].elements)])

\* C2: the units added by partitionAtomicUnitByResidue hold every atom of the
\* chain, the last residue included, exactly once.
C2_ResiduePartitionCoversChain ==
    (IsDefined(partitioned) /\ ValueOf(partitioned).by = "residue") =>
        /\ EmittedElements = {ChainElements[i] : i \in DOMAIN ChainElements}
        /\ EmittedCount = ArrayLen(ChainElements)

\* A water chain of two residues of two atoms each, split by residue: the
\* units hold the first residue only.
C2_Witness ==
    /\ IsDefined(partitioned) /\ ValueOf(partitioned).by = "residue"
    /\ chain.start = 0 /\ chain.end = 4
    /\ SeqOf(model.residueAtomSegments) = <<0, 2, 4>>
    /\ EmittedElements = {0, 1}


\* C14: the element set of every unit emitted while a chain is decomposed is
\* strictly increasing, whatever buckets the grid returns.
C14_UnitElementsStrictlyIncreasing ==
    \A u \in SeqRange(builder.units) :
        \A i, j \in DOMAIN u.elements : i < j => u.elements[i] < u.elements[j]

\* A chain of single atom residues whose atoms the grid returns in one
\* bucket, the later atom first: the unit's elements are in that order.
C14_Witness ==
    /\ IsDefined(partitioned) /\ ValueOf(partitioned).by = "atom"
    /\ chain.end - chain.start = 2
    /\ ArrayLen(ValueOf(partitioned).buckets.offset) = 1
    /\ ValueOf(partitioned).buckets.array[0] > ValueOf(partitioned).buckets.array[1]
    /\ Len(builder.units) = 1
    /\ builder.units[1].elements[0] > builder.units[1].elements[1]

\* The bucket the grid put position k in.
BucketOf(buckets, k) ==
    CHOOSE i \in DOMAIN buckets.offset :
        \E j \in 0..(buckets.count[i] - 1) : buckets.array[buckets.offset[i] + j] = k

\* The residue segments of the chain, and the atoms of residue segment k.
ChainResidues == Segments(model.residueAtomSegments, ChainElements, 0, ArrayLen(ChainElements))
ResidueAtomsOf(k) ==
    {ChainElements[p] : p \in ChainResidues[k + 1].start..(ChainResidues[k + 1].end - 1)}

\* C15: after partitionAtomicUnitByResidue, every emitted atom of a residue
\* is in the unit of the bucket the residue's first atom was put in, and in
\* no other unit.
C15_ResidueNeverSplit ==
    (IsDefined(partitioned) /\ ValueOf(partitioned).by = "residue") =>
        \A k \in 0..(Len(ChainResidues) - 1) : \A a \in ResidueAtomsOf(k) :
            \A i \in DOMAIN builder.units :
                (\E p \in DOMAIN builder.units[i].elements : builder.units[i].elements[p] = a)
                    => i = BucketOf(ValueOf(partitioned).buckets, k) + 1

\* Residues {0, 1}, {2}, {3} in three buckets, the second residue's bucket
\* first: atom 2 is alone in the first unit, atoms 0 and 1 are in another.
C15_Witness ==
    /\ IsDefined(partitioned) /\ ValueOf(partitioned).by = "residue"
    /\ SeqOf(model.residueAtomSegments) = <<0, 2, 3, 4>>
    /\ chain.start = 0 /\ chain.end = 4
    /\ Len(builder.units) = 3
    /\ SeqOf(builder.units[1].elements) = <<2>>
    /\ \E i \in 2..3 : SeqOf(builder.units[i].elements) = <<0, 1>>


(***************************************************************************)
(* Structure: 32-bit arithmetic and the hash functions.                    *)
(* A JavaScript int32 is an integer in -2^31 .. 2^31 - 1; the operators    *)
(* below work on its two 16-bit halves, so that every intermediate value   *)
(* stays in that range.  hash1, SortedArray.hashCode and hashFnv32a live   *)
(* in mol-data, which is not among the sources.                            *)
(***************************************************************************)

Half == 65536

\* The halves of an int32: n = Hi(n) * 2^16 + Lo(n), Lo(n) in 0..2^16 - 1.
Hi(n) == n \div Half
Lo(n) == n % Half

\* The int32 with the given halves, the upper half taken modulo 2^16.
Int32(hi, lo) ==
    LET h == hi % Half
    IN  (IF h >= Half \div 2 THEN h - Half ELSE h) * Half + lo

\* The operations below are functions of their operands, applied to them:
\* an operand is evaluated once, before the operation.

\* (a + b) | 0
Add32(a, b) ==
    LET sum[x \in Int, y \in Int] ==
            Int32(Hi(x) + Hi(y) + ((Lo(x) + Lo(y)) \div Half), (Lo(x) + Lo(y)) % Half)
    IN  sum[a, b]

\* (k * a) | 0 for a small factor k
Mul32(k, a) ==
    LET product[x \in Int] == Int32(k * Hi(x) + ((k * Lo(x)) \div Half), (k * Lo(x)) % Half)
    IN  product[a]

\* a >> k
Sar32(a, k) == a \div (2 ^ k)

\* a << k
Shl32(a, k) ==
    LET shifted[x \in Int] ==
            IF k < 16 THEN Mul32(2 ^ k, x) ELSE Int32(Lo(x) * (2 ^ (k - 16)), 0)
    IN  shifted[a]

\* a ^ b of two 4-bit digits: bit k is the parity of the two bits k
Xor4 ==
    [a \in 0..15, b \in 0..15 |->
        LET bit(k) == (((a \div (2 ^ k)) + (b \div (2 ^ k))) % 2) * (2 ^ k)
        IN  bit(0) + bit(1) + bit(2) + bit(3)]

\* a ^ b of two 16-bit halves, digit by digit
Xor16(a, b) ==
    Xor4[a % 16, b % 16]
        + 16 * Xor4[(a \div 16) % 16, (b \div 16) % 16]
        + 256 * Xor4[(a \div 256) % 16, (b \div 256) % 16]
        + 4096 * Xor4[a \div 4096, b \div 4096]

\* a ^ b
Xor32(a, b) ==
    LET xor[x \in Int, y \in Int] == Int32(Xor16(Hi(x) % Half, Hi(y) % Half), Xor16(Lo(x), Lo(y)))
    IN  xor[a, b]

\* 0xdeadbeef as an int32
DeadBeef == Int32(57005, 48879)

\* hash1(i): a = i ^ (i >> 4); a = (a ^ 0xdeadbeef) + (a << 5); a ^ (a >> 11)
hash1(i) ==
    LET third[b \in Int] == Xor32(b, Sar32(b, 11))
        second[a \in Int] == third[Add32(Xor32(a, DeadBeef), Shl32(a, 5))]
        first[a \in Int] == second[Xor32(a, Sar32(a, 4))]
    IN  first[i]

\* (31 * hash + x) | 0
Combine(hash, x) == Add32(Mul32(31, hash), x)

\* SortedArray.hashCode(set): a hash of (size, first, last, middle) of the
\* elements, 0 for the empty set; the set is a sequence here.
SortedArrayHashCode(set) ==
    LET length == Len(set)
        h3 == Combine(Combine(Combine(23, length), set[1]), set[length])
    IN  IF length = 0 THEN 0
        ELSE IF length > 2 THEN hash1(Combine(h3, set[(length \div 2) + 1]))
        ELSE hash1(h3)


\* hval >>> 0 can exceed 2^31 - 1: a number is <<wrap, int32>> and stands for
\* wrap * 2^32 + int32.
Number(n) == <<0, n>>
Unsigned(n) == IF n < 0 THEN <<1, n>> ELSE <<0, n>>

\* hashFnv32a(array): FNV-1a over the numbers of a sequence, from 0x811c9dc5
RECURSIVE Fnv32a(_, _)
Fnv32a(hval, array) ==
    IF array = <<>> THEN hval
    ELSE LET x == Xor32(hval, Head(array))
             sum == Add32(Shl32(x, 1), Add32(Shl32(x, 4), Add32(Shl32(x, 7),
                        Add32(Shl32(x, 8), Shl32(x, 24)))))
         IN  Fnv32a(Add32(x, sum), Tail(array))

hashFnv32a(array) == Unsigned(Fnv32a(Int32(33052, 40389), array))


(***************************************************************************)
(* Structure: construction, provenance and the getters.                    *)
(* A Structure is [units, unitMap, unitIndexMap, props], props being its   *)
(* private _props; a                                                       *)
(* reference to a Structure is its position in `structures`.  units is a   *)
(* sequence, so units[0] of the source is units[1] here.                   *)
(***************************************************************************)

\* SymmetryOperator.Default, and the operators made from a matrix
SymmetryOperatorDefault == <<>>
SymmetryOperatorCreate(mat) == <<mat>>
SymmetryOperatorCompose(first, second) == first \o second

\* _props of a new Structure
DefaultProps ==
    [parent |-> Undefined, lookup3d |-> Undefined, links |-> Undefined,
     crossLinkRestraints |-> Undefined, unitSymmetryGroups |-> Undefined,
     carbohydrates |-> Undefined, models |-> Undefined, model |-> Undefined,
     masterModel |-> Undefined, representativeModel |-> Undefined,
     uniqueResidueNames |-> Undefined, entityIndices |-> Undefined,
     uniqueAtomicResidueIndices |-> Undefined, serialMapping |-> Undefined,
     hashCode |-> -1, transformHash |-> Number(-1), elementCount |-> -1,
     uniqueElementCount |-> -1, polymerResidueCount |-> -1, polymerUnitCount |-> -1,
     coordinateSystem |-> SymmetryOperatorDefault, label |-> ""]

\* Structure.Props with nothing given
NoProps ==
    [parent |-> Undefined, coordinateSystem |-> Undefined, label |-> Undefined,
     masterModel |-> Undefined, representativeModel |-> Undefined]

cmpUnits(units, i, j) == units[i].id - units[j].id

\* A sort that leaves the array as it is.
SortUnitsNot(units) == units

\* sort(units, 0, units.length, cmpUnits, arraySwap): the units in the order of cmpUnits
SortUnits(units) ==
    [k \in 1..Len(units) |->
        units[CHOOSE i \in 1..Len(units) :
                 Cardinality({j \in 1..Len(units) : cmpUnits(units, j, i) < 0}) = k - 1]]

\* initUnits: the units sorted by id unless they already are, elementCount,
\* unitMap (unit id -> unit, the last unit set under an id) and unitIndexMap
\* (unit id -> position in the sorted array, counted from 0 as in the source)
initUnits(units) ==
    LET isSorted == \A i \in 2..Len(units) : ~(units[i].id < units[i - 1].id)
        sorted == IF isSorted THEN units ELSE SortUnits(units)
        ids == {units[i].id : i \in 1..Len(units)}
        last(arr, id) == CHOOSE i \in 1..Len(arr) :
                            /\ arr[i].id = id
                            /\ \A j \in (i + 1)..Len(arr) : arr[j].id # id
    IN  [units |-> sorted,
         elementCount |-> SumSeq([i \in 1..Len(units) |-> ArrayLen(units[i].elements)]),
         unitMap |-> [id \in ids |-> units[last(units, id)]],
         unitIndexMap |-> [id \in ids |-> last(sorted, id) - 1]]

\* The getters that only read _props
parent(s) == structures[s].props.parent
masterModel(s) == structures[s].props.masterModel
representativeModel(s) == structures[s].props.representativeModel
coordinateSystem(s) == structures[s].props.coordinateSystem
label(s) == structures[s].props.label
elementCount(s) == s.props.elementCount

\* get root: _props.parent || this
root(s) == IF IsDefined(parent(s)) THEN ValueOf(parent(s)) ELSE s

\* A parent that is recorded as it is given.
ParentAsGiven(given) == given

\* props.parent.parent || props.parent
ParentOf(given) == IF IsDefined(parent(ValueOf(given))) THEN parent(ValueOf(given)) ELSE given

\* new Structure(units, props)
NewStructure(units, p) ==
    LET init == initUnits(units)
        given == IsDefined(p.parent)
        from == ValueOf(p.parent)
    IN  [units |-> init.units,
         unitMap |-> init.unitMap,
         unitIndexMap |-> init.unitIndexMap,
         props |-> [DefaultProps EXCEPT
            !.elementCount = init.elementCount,
            !.parent = IF given THEN ParentOf(p.parent) ELSE @,
            !.coordinateSystem = IF IsDefined(p.coordinateSystem) THEN ValueOf(p.coordinateSystem)
                                 ELSE IF given THEN coordinateSystem(from) ELSE @,
            !.label = IF IsDefined(p.label) /\ ValueOf(p.label) # "" THEN ValueOf(p.label)
                      ELSE IF given THEN label(from) ELSE @,
            !.masterModel = IF IsDefined(p.masterModel) THEN p.masterModel
                            ELSE IF given THEN masterModel(from) ELSE @,
            !.representativeModel = IF IsDefined(p.representativeModel) THEN p.representativeModel
                                    ELSE IF given THEN representativeModel(from) ELSE @]]


\* What a getter does: the Structure after the access, the outcome, and the
\* derived properties it had to compute, each with the computed value.
Return(s, value) == [s |-> s, outcome |-> "return", value |-> value, computed |-> <<>>]
Throw(s) == [s |-> s, outcome |-> "throw", value |-> Undefined, computed |-> <<>>]
Computed(r, name) == [r EXCEPT !.computed = Append(@, [name |-> name, value |-> r.value])]
After(first, r) == [r EXCEPT !.computed = first.computed \o @]

\* getModels(s): the models of the units, one per model id, in unit order
getModels(s) ==
    LET first == {i \in 1..Len(s.units) :
                     \A j \in 1..(i - 1) : s.units[j].model.id # s.units[i].model.id}
    IN  [k \in 1..Cardinality(first) |->
            s.units[CHOOSE i \in first : Cardinality({j \in first : j < i}) = k - 1].model]

\* get models
models(s) ==
    IF IsDefined(s.props.models) THEN Return(s, ValueOf(s.props.models))
    ELSE LET arr == getModels(s)
         IN  Computed(Return([s EXCEPT !.props.models = Some(arr)], arr), "models")

\* models[0]
FirstOf(arr) == IF Len(arr) > 0 THEN Some(arr[1]) ELSE Undefined

\* A resolution that never fails: the first model when there are several.
Structure_modelFirstOfMany(s) ==
    IF IsDefined(s.props.model) THEN Return(s, s.props.model)
    ELSE IF IsDefined(s.props.representativeModel) THEN Return(s, s.props.representativeModel)
    ELSE IF IsDefined(s.props.masterModel) THEN Return(s, s.props.masterModel)
    ELSE LET m == models(s)
         IN  After(m, Return([m.s EXCEPT !.props.model = FirstOf(m.value)], FirstOf(m.value)))

\* A resolution that looks at the units first: the model of a single-model
\* Structure, a designated model otherwise.
Structure_modelUnitsFirst(s) ==
    LET m == models(s)
    IN  IF Len(m.value) = 1 THEN After(m, Return(m.s, FirstOf(m.value)))
        ELSE IF IsDefined(s.props.representativeModel)
            THEN After(m, Return(m.s, s.props.representativeModel))
        ELSE IF IsDefined(s.props.masterModel) THEN After(m, Return(m.s, s.props.masterModel))
        ELSE IF Len(m.value) > 1 THEN After(m, Throw(m.s))
        ELSE After(m, Return(m.s, Undefined))

\* get model
Structure_model(s) ==
    IF IsDefined(s.props.model) THEN Return(s, s.props.model)
    ELSE IF IsDefined(s.props.representativeModel) THEN Return(s, s.props.representativeModel)
    ELSE IF IsDefined(s.props.masterModel) THEN Return(s, s.props.masterModel)
    ELSE LET m == models(s)
         IN  IF Len(m.value) > 1 THEN After(m, Throw(m.s))
             ELSE After(m, Return([m.s EXCEPT !.props.model = FirstOf(m.value)],
                                  FirstOf(m.value)))

\* computeHash: the loop over the units from position i on
RECURSIVE HashUnits(_, _, _)
HashUnits(hash, units, i) ==
    IF i > Len(units) THEN hash
    ELSE HashUnits(Combine(Combine(hash, units[i].id), SortedArrayHashCode(units[i].elements)),
                   units, i + 1)

\* A hash that also looks at what the Structure has cached.
computeHashOfCache(s) ==
    LET store[hash \in Int] ==
            Computed(Return([s EXCEPT !.props.hashCode = hash], hash), "hashCode")
        remap[hash \in Int] == store[IF hash = -1 THEN 0 ELSE hash]
    IN  remap[hash1(Combine(Combine(HashUnits(23, s.units, 1), elementCount(s)),
                            IF IsDefined(s.props.models) THEN 1 ELSE 0))]

\* computeHash
computeHash(s) ==
    LET store[hash \in Int] ==
            Computed(Return([s EXCEPT !.props.hashCode = hash], hash), "hashCode")
        remap[hash \in Int] == store[IF hash = -1 THEN 0 ELSE hash]
    IN  remap[hash1(Combine(HashUnits(23, s.units, 1), elementCount(s)))]

\* get hashCode
hashCode(s) ==
    IF s.props.hashCode # -1 THEN Return(s, s.props.hashCode) ELSE computeHash(s)

\* get transformHash
transformHash(s) ==
    IF s.props.transformHash # Number(-1) THEN Return(s, s.props.transformHash)
    ELSE LET hash == hashFnv32a([i \in 1..Len(s.units) |-> s.units[i].id])
         IN  Computed(Return([s EXCEPT !.props.transformHash = hash], hash), "transformHash")

\* Mat4.isIdentity(m) and Mat4.isRotationAndTranslation(m, epsilon), for the
\* three kinds of matrices
Mats == {"identity", "rigid", "shear"}
isIdentity(mat) == mat = "identity"
isRotationAndTranslation(mat) == mat \in {"identity", "rigid"}

\* u.applyOperator(id, op)
applyOperator(u, id, op) == [u EXCEPT !.id = id, !.operator = op]

\* A transform without the identity shortcut.
transformCopiesIdentity(s, mat) ==
    IF ~isRotationAndTranslation(mat) THEN [outcome |-> "throw"]
    ELSE LET units == [i \in 1..Len(structures[s].units) |->
                          applyOperator(structures[s].units[i], structures[s].units[i].id,
                                        SymmetryOperatorCreate(mat))]
             newCS == SymmetryOperatorCompose(SymmetryOperatorCreate(mat), coordinateSystem(s))
         IN  [outcome |-> "new", units |-> units,
              props |-> [NoProps EXCEPT !.parent = Some(s), !.coordinateSystem = Some(newCS)]]

\* A transform that applies any matrix.
transformAnyMatrix(s, mat) ==
    IF isIdentity(mat) THEN [outcome |-> "return", value |-> s]
    ELSE LET units == [i \in 1..Len(structures[s].units) |->
                          applyOperator(structures[s].units[i], structures[s].units[i].id,
                                        SymmetryOperatorCreate(mat))]
             newCS == SymmetryOperatorCompose(SymmetryOperatorCreate(mat), coordinateSystem(s))
         IN  [outcome |-> "new", units |-> units,
              props |-> [NoProps EXCEPT !.parent = Some(s), !.coordinateSystem = Some(newCS)]]

\* Structure.transform(s, transform): s itself, an error, or the arguments of
\* the constructor call it ends in
transform(s, mat) ==
    IF isIdentity(mat) THEN [outcome |-> "return", value |-> s]
    ELSE IF ~isRotationAndTranslation(mat) THEN [outcome |-> "throw"]
    ELSE LET units == [i \in 1..Len(structures[s].units) |->
                          applyOperator(structures[s].units[i], structures[s].units[i].id,
                                        SymmetryOperatorCreate(mat))]
             newCS == SymmetryOperatorCompose(SymmetryOperatorCreate(mat), coordinateSystem(s))
         IN  [outcome |-> "new", units |-> units,
              props |-> [NoProps EXCEPT !.parent = Some(s), !.coordinateSystem = Some(newCS)]]


(***************************************************************************)
(* Structures are created, transformed and asked for their model.          *)
(***************************************************************************)

MaxStructures == 3

M1 == [id |-> "m1"]
M2 == [id |-> "m2"]

\* An atomic unit as StructureBuilder.addUnit makes it in a fresh builder.
StructureUnit(id, m, elements) ==
    UnitCreate(id, id, id, {}, "atomic", m, SymmetryOperatorDefault, elements)

\* The unit lists Structures are created from: none, one model, two models.
NoUnits == <<>>
OneModel == <<StructureUnit(0, M1, <<0, 1>>)>>
TwoModels == <<StructureUnit(0, M1, <<0, 1>>), StructureUnit(1, M2, <<0>>)>>

\* The calls Structure.create(units, props) when n Structures exist: the
\* parent is none or any of them; a master or a representative model is
\* given or not (a Structure has both, or two models and a master model,
\* when it inherits one from its parent).
Creations(n) ==
    {[units |-> c[1],
      props |-> [NoProps EXCEPT !.parent = par, !.masterModel = c[2],
                                !.representativeModel = c[3]]] :
        par \in {Undefined} \cup {Some(i) : i \in 1..n},
        c \in {<<NoUnits, Undefined, Undefined>>,
               <<OneModel, Undefined, Undefined>>,
               <<OneModel, Some(M2), Undefined>>,
               <<TwoModels, Undefined, Undefined>>,
               <<TwoModels, Undefined, Some(M1)>>}}

\* What the getters of a new Structure have returned: nothing.
NoReturns == [model |-> {}, hashCode |-> {}]

StructureOnly == UNCHANGED <<partitionVars, queryVars, graphVars>>

Init ==
    /\ structures = <<>>
    /\ returned = <<>>
    /\ log = <<>>
    /\ PartitionIdle /\ QueryIdle /\ GraphIdle

\* Structure.create(units, props)
Create ==
    /\ Len(structures) < MaxStructures
    /\ \E c \in Creations(Len(structures)) :
        /\ structures' = Append(structures, NewStructure(c.units, c.props))
        /\ log' = Append(log, c)
        /\ returned' = Append(returned, NoReturns)
    /\ StructureOnly

\* Structure.transform(s, mat)
Transform ==
    /\ \E s \in 1..Len(structures), mat \in Mats :
        LET t == transform(s, mat)
        IN  IF t.outcome = "new"
            THEN /\ Len(structures) < MaxStructures
                 /\ structures' = Append(structures, NewStructure(t.units, t.props))
                 /\ log' = Append(log, [units |-> t.units, props |-> t.props])
                 /\ returned' = Append(returned, NoReturns)
            ELSE UNCHANGED structureVars
    /\ StructureOnly

\* s.model
GetModel ==
    /\ \E s \in 1..Len(structures) :
        \E r \in {Structure_model(structures[s])} :
            /\ structures' = [structures EXCEPT ![s] = r.s]
            /\ returned' = [returned EXCEPT
                    ![s].model = @ \cup {[outcome |-> r.outcome, value |-> r.value]}]
            /\ UNCHANGED log
    /\ StructureOnly

Next == Create \/ Transform \/ GetModel

Spec == Init /\ [][Next]_vars

\* The models the units a Structure was created from refer to.
ModelsReferenced(i) == {log[i].units[k].model : k \in 1..Len(log[i].units)}

\* The master / representative model designated when the Structure was
\* created, directly or through the parent it was created from.
RECURSIVE DesignatedMaster(_)
DesignatedMaster(i) ==
    IF IsDefined(log[i].props.masterModel) THEN log[i].props.masterModel
    ELSE IF IsDefined(log[i].props.parent)
        THEN DesignatedMaster(ValueOf(log[i].props.parent))
    ELSE Undefined

RECURSIVE DesignatedRepresentative(_)
DesignatedRepresentative(i) ==
    IF IsDefined(log[i].props.representativeModel) THEN log[i].props.representativeModel
    ELSE IF IsDefined(log[i].props.parent)
        THEN DesignatedRepresentative(ValueOf(log[i].props.parent))
    ELSE Undefined

Thrown == [outcome |-> "throw", value |-> Undefined]
Returned(value) == [outcome |-> "return", value |-> value]

Ambiguous(i) ==
    /\ Cardinality(ModelsReferenced(i)) >= 2
    /\ ~IsDefined(DesignatedMaster(i))
    /\ ~IsDefined(DesignatedRepresentative(i))

\* C1: every access of `model` on a Structure whose units refer to two or
\* more models, and that has no master and no representative model, given or
\* inherited, throws.
C1_AmbiguousModelThrows ==
    \A i \in 1..Len(structures) : Ambiguous(i) => returned[i].model \subseteq {Thrown}

C1_Witness ==
    \E i \in 1..Len(structures) :
        /\ Ambiguous(i)
        /\ IsDefined(log[i].props.parent)
        /\ returned[i].model = {Thrown}
        /\ IsDefined(structures[i].props.models)


\* The Structure a Structure stems from: the parent it was created from,
\* followed up to the one created without parent.
RECURSIVE TopAncestor(_)
TopAncestor(i) ==
    IF IsDefined(log[i].props.parent) THEN TopAncestor(ValueOf(log[i].props.parent)) ELSE i

\* C9: the parent of a Structure is undefined or a Structure without parent,
\* and root is the top-most Structure it stems from (itself without parent).
C9_ProvenanceNeverNests ==
    \A i \in 1..Len(structures) :
        /\ IsDefined(parent(i)) => ~IsDefined(parent(ValueOf(parent(i))))
        /\ root(i) = TopAncestor(i)
        /\ IsDefined(parent(i)) <=> IsDefined(log[i].props.parent)

C9_Witness ==
    \E i, j, k \in 1..Len(structures) :
        /\ log[i].props.parent = Some(j)
        /\ log[j].props.parent = Some(k)
        /\ log[i].props.coordinateSystem # Undefined
        /\ log[j].props.coordinateSystem = Undefined
        /\ root(i) = k

\* The model of a single-model Structure.
TheModel(i) == CHOOSE m \in ModelsReferenced(i) : TRUE

HashUnitLists ==
    {<<StructureUnit(0, M1, <<0, 1>>), StructureUnit(1, M1, <<2>>)>>,
     <<StructureUnit(1, M1, <<2>>), StructureUnit(0, M1, <<0, 1>>)>>,
     <<StructureUnit(0, M2, <<0, 1>>), StructureUnit(1, M2, <<2>>)>>,
     NoUnits}

HashInit ==
    /\ structures = <<>>
    /\ returned = <<>>
    /\ log = <<>>
    /\ PartitionIdle /\ QueryIdle /\ GraphIdle

\* Structure.create(units)
CreateOfUnits ==
    /\ Len(structures) < MaxStructures
    /\ \E units \in HashUnitLists :
        /\ structures' = Append(structures, NewStructure(units, NoProps))
        /\ log' = Append(log, [units |-> units, props |-> NoProps])
        /\ returned' = Append(returned, NoReturns)
    /\ StructureOnly

\* s.hashCode
GetHashCode ==
    /\ \E s \in 1..Len(structures) :
        \E r \in {hashCode(structures[s])} :
            /\ structures' = [structures EXCEPT ![s] = r.s]
            /\ returned' = [returned EXCEPT ![s].hashCode = @ \cup {r.value}]
            /\ UNCHANGED log
    /\ StructureOnly

\* s.models
GetModels ==
    /\ \E s \in 1..Len(structures) :
        /\ structures' = [structures EXCEPT ![s] = models(structures[s]).s]
        /\ UNCHANGED <<returned, log>>
    /\ StructureOnly

HashNext == CreateOfUnits \/ GetHashCode \/ GetModels

SpecHash == HashInit /\ [][HashNext]_vars

\* The sequence of unit ids and the sequence of unit element sets of a Structure.
UnitIds(i) == [k \in 1..Len(structures[i].units) |-> structures[i].units[k].id]
UnitElements(i) == [k \in 1..Len(structures[i].units) |-> structures[i].units[k].elements]

\* C7: the calls of hashCode on one Structure return one value; Structures
\* with the same unit ids and the same unit elements return the same value,
\* whatever either has cached; once returned, the value is the cached one
\* and is not the sentinel -1.
C7_HashCodeStable ==
    /\ \A i \in 1..Len(structures) :
        /\ Cardinality(returned[i].hashCode) <= 1
        /\ returned[i].hashCode # {} =>
              /\ structures[i].props.hashCode \in returned[i].hashCode
              /\ structures[i].props.hashCode # -1
        /\ returned[i].hashCode = {} => structures[i].props.hashCode = -1
    /\ \A i, j \in 1..Len(structures) :
        (UnitIds(i) = UnitIds(j) /\ UnitElements(i) = UnitElements(j))
            => Cardinality(returned[i].hashCode \cup returned[j].hashCode) <= 1

C7_Witness ==
    \E i, j \in 1..Len(structures) :
        /\ log[i].units # log[j].units
        /\ structures[i].units # structures[j].units
        /\ UnitIds(i) = UnitIds(j) /\ UnitElements(i) = UnitElements(j)
        /\ IsDefined(structures[i].props.models) /\ ~IsDefined(structures[j].props.models)
        /\ returned[i].hashCode # {}
        /\ returned[i].hashCode = returned[j].hashCode


(***************************************************************************)
(* Structure: the lazily derived properties.                               *)
(* The spatial lookup, the bonds, the restraints, the carbohydrates and    *)
(* the symmetry groups are computed outside the sources; the first four    *)
(* are objects here, of which only the existence matters.  A cached        *)
(* object, array, Set or Map is truthy whatever it holds, so `if           *)
(* (this._props.x)` is IsDefined.                                          *)
(***************************************************************************)

\* new StructureLookup3D(s), computeInterUnitBonds(s),
\* extractCrossLinkRestraints(s), computeCarbohydrates(s)
StructureLookup3D(s) == [lookup3d |-> elementCount(s)]
computeInterUnitBonds(s) == [bondCount |-> 0]
extractCrossLinkRestraints(s) == [count |-> 0]
computeCarbohydrates(s) == [links |-> <<>>, elements |-> <<>>]

\* The positions of seq whose key occurs at no earlier position, in order.
FirstOccurrences(keys) ==
    LET first == {i \in 1..Len(keys) : \A j \in 1..(i - 1) : keys[j] # keys[i]}
    IN  [k \in 1..Cardinality(first) |->
            CHOOSE i \in first : Cardinality({j \in first : j < i}) = k - 1]

\* sortArray(array) of distinct numbers
SortArray(array) ==
    [k \in 1..Len(array) |->
        CHOOSE x \in SeqRange(array) : Cardinality({y \in SeqRange(array) : y < x}) = k - 1]

\* StructureSymmetry.computeTransformGroups(s): the units of one invariantId
\* form a group, which has the elements of its first unit
computeTransformGroups(s) ==
    LET ids == [i \in 1..Len(s.units) |-> s.units[i].invariantId]
        firsts == FirstOccurrences(ids)
    IN  [g \in 1..Len(firsts) |->
            [elements |-> s.units[firsts[g]].elements,
             units |-> SelectSeq(s.units, LAMBDA u : u.invariantId = ids[firsts[g]])]]

\* unit.polymerElements: the elements of the unit in a polymer
polymerElements(u) == SelectSeq(u.elements, LAMBDA e : e \in u.model.polymerAtoms)

\* The residue / chain segments of the elements of a unit
ResidueSegmentsOf(u) ==
    Segments(u.model.atomicHierarchy.residueAtomSegments, ArrayOf(u.elements),
             0, Len(u.elements))
ChainSegmentsOf(u) ==
    Segments(u.model.atomicHierarchy.chainAtomSegments, ArrayOf(u.elements),
             0, Len(u.elements))

\* getUniqueResidueNames(s): a Set
getUniqueResidueNames(s) ==
    UNION {{u.model.atomicHierarchy.label_comp_id[seg.index + 1] :
                seg \in SeqRange(ResidueSegmentsOf(u))} :
           u \in {v \in SeqRange(s.units) : v.kind = "atomic"}}

\* getEntityIndices(s): the entity keys of the chains of the units, sorted
getEntityIndices(s) ==
    SortArray(SeqOf(OrderedSetOf(
        UNION {{u.model.atomicHierarchy.entityKey[seg.index + 1] :
                    seg \in SeqRange(ChainSegmentsOf(u))} :
               u \in SeqRange(s.units)})))

\* A serial mapping whose unit offsets include the unit itself.
getSerialMappingInclusive(s) ==
    LET offset(i) == SumSeq([j \in 1..(i - 1) |-> Len(s.units[j].elements)])
        unitOf(m) == CHOOSE i \in 1..Len(s.units) :
                        offset(i) <= m /\ m < offset(i) + Len(s.units[i].elements)
    IN  [unitElementCount |-> [i \in 1..Len(s.units) |-> offset(i + 1)],
         unitIndices |-> [m \in 1..elementCount(s) |-> unitOf(m - 1) - 1],
         elementIndices |-> [m \in 1..elementCount(s) |->
                                s.units[unitOf(m - 1)].elements[m - offset(unitOf(m - 1))]]]

\* getSerialMapping(s)
getSerialMapping(s) ==
    LET offset(i) == SumSeq([j \in 1..(i - 1) |-> Len(s.units[j].elements)])
        unitOf(m) == CHOOSE i \in 1..Len(s.units) :
                        offset(i) <= m /\ m < offset(i) + Len(s.units[i].elements)
    IN  [unitElementCount |-> [i \in 1..Len(s.units) |-> offset(i)],
         unitIndices |-> [m \in 1..elementCount(s) |-> unitOf(m - 1) - 1],
         elementIndices |-> [m \in 1..elementCount(s) |->
                                s.units[unitOf(m - 1)].elements[m - offset(unitOf(m - 1))]]]

\* getPolymerResidueCount(s)
getPolymerResidueCount(s) ==
    SumSeq([i \in 1..Len(s.units) |-> Len(polymerElements(s.units[i]))])

\* A count of polymer units less one: -1 without polymer units.
getPolymerUnitCountLessOne(s) ==
    Cardinality({i \in 1..Len(s.units) : Len(polymerElements(s.units[i])) > 0}) - 1

\* getPolymerUnitCount(s)
getPolymerUnitCount(s) ==
    Cardinality({i \in 1..Len(s.units) : Len(polymerElements(s.units[i])) > 0})


\* this._props[name] = v; return v, for a computed object and a computed number
Store(s, name, v) ==
    CHOOSE r \in {Computed(Return([s EXCEPT !.props[name] = Some(x)], x), name) : x \in {v}} :
        TRUE
StoreNumber(s, name, v) ==
    CHOOSE r \in {Computed(Return([s EXCEPT !.props[name] = x], x), name) : x \in {v}} :
        TRUE

\* get lookup3d
lookup3d(s) ==
    IF IsDefined(s.props.lookup3d) THEN Return(s, ValueOf(s.props.lookup3d))
    ELSE Store(s, "lookup3d", StructureLookup3D(s))

\* get links
links(s) ==
    IF IsDefined(s.props.links) THEN Return(s, ValueOf(s.props.links))
    ELSE Store(s, "links", computeInterUnitBonds(s))

\* get crossLinkRestraints
crossLinkRestraints(s) ==
    IF IsDefined(s.props.crossLinkRestraints)
        THEN Return(s, ValueOf(s.props.crossLinkRestraints))
    ELSE Store(s, "crossLinkRestraints", extractCrossLinkRestraints(s))

\* get unitSymmetryGroups
unitSymmetryGroups(s) ==
    IF IsDefined(s.props.unitSymmetryGroups)
        THEN Return(s, ValueOf(s.props.unitSymmetryGroups))
    ELSE Store(s, "unitSymmetryGroups", computeTransformGroups(s))

\* get carbohydrates
carbohydrates(s) ==
    IF IsDefined(s.props.carbohydrates) THEN Return(s, ValueOf(s.props.carbohydrates))
    ELSE Store(s, "carbohydrates", computeCarbohydrates(s))

\* get uniqueResidueNames
uniqueResidueNames(s) ==
    IF IsDefined(s.props.uniqueResidueNames)
        THEN Return(s, ValueOf(s.props.uniqueResidueNames))
    ELSE Store(s, "uniqueResidueNames", getUniqueResidueNames(s))

\* get entityIndices
entityIndices(s) ==
    IF IsDefined(s.props.entityIndices) THEN Return(s, ValueOf(s.props.entityIndices))
    ELSE Store(s, "entityIndices", getEntityIndices(s))

\* getUniqueAtomicResidueIndices(s): for each model of the first units of the
\* symmetry groups, in the order met, its residue indices, sorted; it reads
\* s.unitSymmetryGroups
getUniqueAtomicResidueIndices(s) ==
    LET groups == unitSymmetryGroups(s)
        firsts == SelectSeq([g \in 1..Len(groups.value) |-> groups.value[g].units[1]],
                            LAMBDA u : u.kind = "atomic")
        modelIds == [i \in 1..Len(firsts) |-> firsts[i].model.id]
        met == FirstOccurrences(modelIds)
        residuesOf(id) ==
            UNION {{seg.index : seg \in SeqRange(ResidueSegmentsOf(u))} :
                   u \in {v \in SeqRange(firsts) : v.model.id = id}}
    IN  After(groups,
              Return(groups.s,
                     [k \in 1..Len(met) |->
                        [id |-> modelIds[met[k]],
                         indices |-> SeqOf(OrderedSetOf(residuesOf(modelIds[met[k]])))]]))

\* get uniqueAtomicResidueIndices
uniqueAtomicResidueIndices(s) ==
    IF IsDefined(s.props.uniqueAtomicResidueIndices)
        THEN Return(s, ValueOf(s.props.uniqueAtomicResidueIndices))
    ELSE \* the symmetry groups are read, then the Map is stored
         CHOOSE r \in {After(c, Store(c.s, "uniqueAtomicResidueIndices", c.value)) :
                          c \in {getUniqueAtomicResidueIndices(s)}} : TRUE

\* get serialMapping
serialMapping(s) ==
    IF IsDefined(s.props.serialMapping) THEN Return(s, ValueOf(s.props.serialMapping))
    ELSE Store(s, "serialMapping", getSerialMapping(s))

\* get polymerResidueCount
polymerResidueCount(s) ==
    IF s.props.polymerResidueCount = -1
        THEN StoreNumber(s, "polymerResidueCount", getPolymerResidueCount(s))
    ELSE Return(s, s.props.polymerResidueCount)

\* get polymerUnitCount
polymerUnitCount(s) ==
    IF s.props.polymerUnitCount = -1
        THEN StoreNumber(s, "polymerUnitCount", getPolymerUnitCount(s))
    ELSE Return(s, s.props.polymerUnitCount)

\* getUniqueElementCount(s): it reads s.unitSymmetryGroups
getUniqueElementCount(s) ==
    CHOOSE r \in {After(groups,
                        Return(groups.s,
                               SumSeq([g \in 1..Len(groups.value) |->
                                          Len(groups.value[g].elements)]))) :
                     groups \in {unitSymmetryGroups(s)}} : TRUE

\* get uniqueElementCount
uniqueElementCount(s) ==
    IF s.props.uniqueElementCount = -1
        THEN CHOOSE r \in {After(c, StoreNumber(c.s, "uniqueElementCount", c.value)) :
                              c \in {getUniqueElementCount(s)}} : TRUE
    ELSE Return(s, s.props.uniqueElementCount)


(***************************************************************************)
(* One Structure whose derived properties are accessed in any order.       *)
(***************************************************************************)

LazyProperties ==
    {"lookup3d", "links", "crossLinkRestraints", "unitSymmetryGroups", "carbohydrates",
     "models", "serialMapping", "uniqueResidueNames", "entityIndices",
     "uniqueAtomicResidueIndices", "hashCode", "transformHash", "polymerResidueCount",
     "polymerUnitCount", "uniqueElementCount"}

\* A model of four atoms: the residues ALA {0, 1}, GLY {2} and HOH {3}, the
\* chains {0, 1, 2} of entity 0 and {3} of entity 1; the polymer is chain 0.
LazyModel ==
    [id |-> "m1",
     atomicHierarchy |-> [residueAtomSegments |-> ArrayOf(<<0, 2, 3, 4>>),
                          chainAtomSegments |-> ArrayOf(<<0, 3, 4>>),
                          label_comp_id |-> <<"ALA", "GLY", "HOH">>,
                          entityKey |-> <<0, 1>>],
     polymerAtoms |-> {0, 1, 2}]

\* The unit lists of the Structure: no units; the two chains; the polymer
\* chain and a symmetry mate of it.
LazyUnitLists ==
    {NoUnits,
     <<StructureUnit(0, LazyModel, <<0, 1, 2>>), StructureUnit(1, LazyModel, <<3>>)>>,
     <<StructureUnit(0, LazyModel, <<0, 1, 2>>),
       applyOperator(StructureUnit(0, LazyModel, <<0, 1, 2>>), 1,
                     SymmetryOperatorCreate("rigid"))>>}

LazyInit ==
    /\ \E units \in LazyUnitLists : structures = <<NewStructure(units, NoProps)>>
    /\ returned = [name \in LazyProperties |-> {}]
    /\ log = [name \in LazyProperties |-> <<>>]
    /\ PartitionIdle /\ QueryIdle /\ GraphIdle

\* The values computed for the property `name` during an access.
ComputedFor(name, r) ==
    LET entries == SelectSeq(r.computed, LAMBDA c : c.name = name)
    IN  [k \in 1..Len(entries) |-> entries[k].value]

\* An access of the property `name` that went as r.
Accessed(name, r) ==
    /\ structures' = <<r.s>>
    /\ returned' = [returned EXCEPT ![name] = @ \cup {r.value}]
    /\ log' = [n \in LazyProperties |-> log[n] \o ComputedFor(n, r)]
    /\ StructureOnly

AccessLookup3d == \E r \in {lookup3d(structures[1])} : Accessed("lookup3d", r)
AccessLinks == \E r \in {links(structures[1])} : Accessed("links", r)
AccessCrossLinkRestraints ==
    \E r \in {crossLinkRestraints(structures[1])} : Accessed("crossLinkRestraints", r)
AccessUnitSymmetryGroups ==
    \E r \in {unitSymmetryGroups(structures[1])} : Accessed("unitSymmetryGroups", r)
AccessCarbohydrates == \E r \in {carbohydrates(structures[1])} : Accessed("carbohydrates", r)
AccessModels == \E r \in {models(structures[1])} : Accessed("models", r)
AccessSerialMapping == \E r \in {serialMapping(structures[1])} : Accessed("serialMapping", r)
AccessUniqueResidueNames ==
    \E r \in {uniqueResidueNames(structures[1])} : Accessed("uniqueResidueNames", r)
AccessEntityIndices == \E r \in {entityIndices(structures[1])} : Accessed("entityIndices", r)
AccessUniqueAtomicResidueIndices ==
    \E r \in {uniqueAtomicResidueIndices(structures[1])} :
        Accessed("uniqueAtomicResidueIndices", r)
AccessHashCode == \E r \in {hashCode(structures[1])} : Accessed("hashCode", r)
AccessTransformHash == \E r \in {transformHash(structures[1])} : Accessed("transformHash", r)
AccessPolymerResidueCount ==
    \E r \in {polymerResidueCount(structures[1])} : Accessed("polymerResidueCount", r)
AccessPolymerUnitCount ==
    \E r \in {polymerUnitCount(structures[1])} : Accessed("polymerUnitCount", r)
AccessUniqueElementCount ==
    \E r \in {uniqueElementCount(structures[1])} : Accessed("uniqueElementCount", r)

LazyNext ==
    \/ AccessLookup3d \/ AccessLinks \/ AccessCrossLinkRestraints
    \/ AccessUnitSymmetryGroups \/ AccessCarbohydrates \/ AccessModels
    \/ AccessSerialMapping \/ AccessUniqueResidueNames \/ AccessEntityIndices
    \/ AccessUniqueAtomicResidueIndices \/ AccessHashCode \/ AccessTransformHash
    \/ AccessPolymerResidueCount \/ AccessPolymerUnitCount \/ AccessUniqueElementCount

SpecLazy == LazyInit /\ [][LazyNext]_vars

\* The cache field of a property is as the constructor left it.
IsUnset(name) == structures[1].props[name] = DefaultProps[name]

\* The value a set cache field holds.
Stored(name) ==
    IF name \in {"hashCode", "transformHash", "polymerResidueCount", "polymerUnitCount",
                 "uniqueElementCount"}
        THEN structures[1].props[name]
    ELSE ValueOf(structures[1].props[name])

\* C8: each derived property is computed at most once; its cache field is
\* unset until then and holds the computed value from then on; every access
\* returned that value.
C8_ComputedAtMostOnce ==
    \A name \in LazyProperties :
        /\ Len(log[name]) <= 1
        /\ Len(log[name]) = 0 <=> IsUnset(name)
        /\ Len(log[name]) = 1 => Stored(name) = log[name][1]
        /\ returned[name] \subseteq SeqRange(log[name])

C8_Witness ==
    /\ structures[1].units = NoUnits
    /\ log["polymerUnitCount"] = <<0>> /\ returned["polymerUnitCount"] = {0}
    /\ structures[1].props.polymerUnitCount = 0
    /\ log["models"] = <<NoUnits>> /\ returned["models"] = {<<>>}
    /\ Len(log["unitSymmetryGroups"]) = 1
    /\ returned["unitSymmetryGroups"] = {Stored("unitSymmetryGroups")}
    /\ returned["uniqueElementCount"] = {0}


(***************************************************************************)
(* A StructureBuilder in use: chain groups, units and getStructure.        *)
(* getStructure hands the builder's own units array to the constructor,    *)
(* which keeps it (this.units = units): the units array of every Structure *)
(* the builder has returned is the builder's array, and a unit pushed      *)
(* later is seen through all of them.                                      *)
(***************************************************************************)

\* the number of calls made on one builder
MaxCalls == 5

\* StructureBuilder.addWithOperator(unit, operator)
addWithOperator(sb, unit, operator) ==
    [sb EXCEPT !.units = Append(@, applyOperator(unit, Len(sb.units), operator))]

\* StructureBuilder.getStructure(): create(this.units, this.props)
getStructure(sb) == NewStructure(sb.units, sb.props)

\* The element sets given to addUnit, and the unit given to addWithOperator.
BuilderElements == {<<0>>, <<1, 2>>}
OperatedUnit == StructureUnit(0, M1, <<0, 1>>)

BuilderOnly == UNCHANGED <<model, chain, partitioned, queryVars, graphVars>>

\* new StructureBuilder({ label }); structures are the Structures it has
\* returned, `returned` each of them as it was when it was returned, log
\* the calls made.
BuilderInit ==
    /\ builder = NewStructureBuilder([NoProps EXCEPT !.label = Some("m1")])
    /\ structures = <<>>
    /\ returned = <<>>
    /\ log = <<>>
    /\ model = Idle /\ chain = Idle /\ partitioned = Idle
    /\ QueryIdle /\ GraphIdle

\* The Structures that hold the units array of the builder sb.
Sharing(sb) == [i \in DOMAIN structures |-> [structures[i] EXCEPT !.units = sb.units]]

\* A call that returned.
Called(op) == Len(log) < MaxCalls /\ log' = Append(log, [op |-> op, outcome |-> "return"])

BeginChainGroup ==
    /\ Called("beginChainGroup")
    /\ builder' = beginChainGroup(builder)
    /\ UNCHANGED <<structures, returned>>
    /\ BuilderOnly

EndChainGroup ==
    /\ Called("endChainGroup")
    /\ builder' = endChainGroup(builder)
    /\ UNCHANGED <<structures, returned>>
    /\ BuilderOnly

AddUnit ==
    /\ Called("addUnit")
    /\ \E elements \in BuilderElements :
        \E sb \in {addUnit(builder, "atomic", M1, SymmetryOperatorDefault, elements, {})} :
            /\ builder' = sb
            /\ structures' = Sharing(sb)
    /\ UNCHANGED returned
    /\ BuilderOnly

AddWithOperator ==
    /\ Called("addWithOperator")
    /\ \E sb \in {addWithOperator(builder, OperatedUnit, SymmetryOperatorCreate("rigid"))} :
        /\ builder' = sb
        /\ structures' = Sharing(sb)
    /\ UNCHANGED returned
    /\ BuilderOnly

GetStructure ==
    /\ Called("getStructure")
    /\ \E s \in {getStructure(builder)} :
        /\ structures' = Append(structures, s)
        /\ returned' = Append(returned, s)
    /\ UNCHANGED builder
    /\ BuilderOnly

BuilderNext ==
    BeginChainGroup \/ EndChainGroup \/ AddUnit \/ AddWithOperator \/ GetStructure

SpecBuilder == BuilderInit /\ [][BuilderNext]_vars

\* The call at position p of the log came after a getStructure call.
Finalized(p) == \E q \in 1..(p - 1) : log[q].op = "getStructure"

\* C11: once getStructure has been called, every later addUnit,
\* addWithOperator or getStructure call on the builder fails, and every
\* Structure the builder returned is as it was when it was returned.
C11_BuilderIsWriteOnce ==
    /\ \A p \in DOMAIN log :
        (Finalized(p) /\ log[p].op \in {"addUnit", "addWithOperator", "getStructure"})
            => log[p].outcome = "throw"
    /\ \A i \in DOMAIN structures : structures[i] = returned[i]

\* getStructure on an empty builder, then addUnit: the call returns and the
\* Structure returned as empty has a unit its maps and its element count
\* do not know.
C11_Witness ==
    /\ Len(log) = 2 /\ log[1].op = "getStructure" /\ log[2] = [op |-> "addUnit", outcome |-> "return"]
    /\ returned[1].units = <<>>
    /\ Len(structures[1].units) = 1
    /\ DOMAIN structures[1].unitMap = {}
    /\ structures[1].props.elementCount = 0


\* C13: the elementCount of every Structure is the sum of the sizes of the
\* element sets of the units in its units array.
C13_ElementCountIsSumOfUnits ==
    \A i \in DOMAIN structures :
        structures[i].props.elementCount
            = SumSeq([k \in 1..Len(structures[i].units) |->
                         Len(structures[i].units[k].elements)])

\* One unit of two elements, getStructure, one more unit of two elements:
\* the Structure has both units and an elementCount of 2.
C13_Witness ==
    /\ [p \in DOMAIN log |-> log[p].op] = <<"addUnit", "getStructure", "addWithOperator">>
    /\ Len(structures[1].units) = 2
    /\ Len(structures[1].units[1].elements) + Len(structures[1].units[2].elements) = 4
    /\ elementCount(structures[1]) = 2
    /\ elementCount(returned[1]) = 2


\* The positions in the log of the calls that added a unit, and the
\* position of the call that added unit k of the builder.
AddPositions == {p \in DOMAIN log : log[p].op \in {"addUnit", "addWithOperator"}}
AddedAt(k) == CHOOSE p \in AddPositions : Cardinality({q \in AddPositions : q < p}) = k - 1

\* The units of the builder that addUnit added.
AddUnitUnits == {k \in 1..Len(builder.units) : log[AddedAt(k)].op = "addUnit"}

\* The bracket the call at position p was made in: the position of the last
\* beginChainGroup before it when no endChainGroup lies between, else 0.
Bracket(p) ==
    LET begins == {q \in 1..(p - 1) :
                      /\ log[q].op = "beginChainGroup"
                      /\ \A r \in (q + 1)..(p - 1) : log[r].op # "endChainGroup"}
    IN  IF begins = {} THEN 0 ELSE CHOOSE q \in begins : \A r \in begins : r <= q

\* C19: two units added by addUnit have the same chainGroupId exactly when
\* both were added in the same bracket (so a unit added outside a bracket
\* shares its chainGroupId with no other), and the chainGroupIds do not
\* decrease in the order of addition.
C19_ChainGroupIds ==
    \A k1, k2 \in AddUnitUnits : k1 < k2 =>
        /\ (builder.units[k1].chainGroupId = builder.units[k2].chainGroupId)
              <=> (Bracket(AddedAt(k1)) # 0 /\ Bracket(AddedAt(k1)) = Bracket(AddedAt(k2)))
        /\ builder.units[k1].chainGroupId <= builder.units[k2].chainGroupId

\* Two units added in one bracket, then one added outside.
C19_Witness ==
    /\ [p \in DOMAIN log |-> log[p].op]
          = <<"beginChainGroup", "addUnit", "addUnit", "endChainGroup", "addUnit">>
    /\ [k \in 1..Len(builder.units) |-> builder.units[k].chainGroupId] = <<0, 0, 1>>
    /\ [k \in 1..Len(builder.units) |-> builder.units[k].id] = <<0, 1, 2>>


(***************************************************************************)
(* Structures are constructed from unit arrays in any order, transformed   *)
(* and asked for their serial mapping.  `log` holds the constructor call   *)
(* that made each Structure, `returned` the last call and what it          *)
(* returned.                                                               *)
(***************************************************************************)

\* the number of Structures made by the constructor; a transform may add
\* one more
MaxConstructed == 1

\* The units given to the constructor: ids 0, 1 and 3, of two, one and three
\* elements.
ConstructUnits ==
    {StructureUnit(0, M1, <<2, 5>>), StructureUnit(1, M1, <<4>>),
     StructureUnit(3, M2, <<0, 3, 4>>)}

\* The arrays of units with distinct ids, in any order.
ConstructLists ==
    UNION {{units \in [1..n -> ConstructUnits] :
                \A i, j \in 1..n : units[i].id = units[j].id => i = j} : n \in 0..3}

\* A call and what it returned.
Call(op, s, mat, outcome, value) ==
    [op |-> op, s |-> s, mat |-> mat, outcome |-> outcome, value |-> value]

ConstructInit ==
    /\ structures = <<>>
    /\ log = <<>>
    /\ returned = Call("none", 0, "", "", 0)
    /\ PartitionIdle /\ QueryIdle /\ GraphIdle

\* The Structures made by the constructor from an array it was given (a
\* transform makes its own array).
Constructed == {i \in 1..Len(structures) : ~IsDefined(log[i].props.parent)}

\* new Structure(units)
Construct ==
    /\ Cardinality(Constructed) < MaxConstructed
    /\ \E units \in ConstructLists :
        /\ structures' = Append(structures, NewStructure(units, NoProps))
        /\ log' = Append(log, [units |-> units, props |-> NoProps])
        /\ returned' = Call("create", 0, "", "return", Len(structures) + 1)
    /\ StructureOnly

\* Structure.transform(s, mat)
TransformStructure ==
    /\ \E s \in 1..Len(structures), mat \in Mats :
        \E t \in {transform(s, mat)} :
            IF t.outcome = "new"
            THEN /\ Len(structures) <= MaxConstructed
                 /\ structures' = Append(structures, NewStructure(t.units, t.props))
                 /\ log' = Append(log, [units |-> t.units, props |-> t.props])
                 /\ returned' = Call("transform", s, mat, "return", Len(structures) + 1)
            ELSE /\ UNCHANGED <<structures, log>>
                 /\ returned' = Call("transform", s, mat, t.outcome,
                                     IF t.outcome = "return" THEN t.value ELSE 0)
    /\ StructureOnly

\* s.serialMapping
GetSerialMapping ==
    /\ \E s \in 1..Len(structures) :
        \E r \in {serialMapping(structures[s])} :
            /\ structures' = [structures EXCEPT ![s] = r.s]
            /\ returned' = Call("serialMapping", s, "", r.outcome, r.value)
    /\ UNCHANGED log
    /\ StructureOnly

ConstructNext == Construct \/ TransformStructure \/ GetSerialMapping

SpecConstruct == ConstructInit /\ [][ConstructNext]_vars

\* C12: a Structure constructed from units with distinct ids in any order
\* has its units in strictly increasing id order, holds the units it was
\* given, maps every unit id to its unit and every unit id to the position
\* of that unit.
C12_UnitsSortedAndMapped ==
    \A i \in Constructed :
        LET s == structures[i]
            given == log[i].units
        IN  /\ \A k \in 2..Len(s.units) : s.units[k - 1].id < s.units[k].id
            /\ Len(s.units) = Len(given) /\ SeqRange(s.units) = SeqRange(given)
            /\ DOMAIN s.unitMap = {u.id : u \in SeqRange(given)}
            /\ \A u \in SeqRange(given) : s.unitMap[u.id] = u
            /\ DOMAIN s.unitIndexMap = DOMAIN s.unitMap
            /\ \A k \in 1..Len(s.units) : s.unitIndexMap[s.units[k].id] = k - 1

\* Three units given in the order 3, 0, 1.
C12_Witness ==
    \E i \in Constructed :
        /\ [k \in 1..Len(log[i].units) |-> log[i].units[k].id] = <<3, 0, 1>>
        /\ UnitIds(i) = <<0, 1, 3>>
        /\ structures[i].unitIndexMap[3] = 2


\* The serial mapping a Structure has cached, and the offset of unit i.
SerialMappingOf(i) == ValueOf(structures[i].props.serialMapping)
OffsetOf(i, u) == SumSeq([v \in 1..(u - 1) |-> Len(structures[i].units[v].elements)])

\* The serial mapping numbers all elements densely in unit order: the
\* offsets are cumulative, and serial index offset + j belongs to the unit.
DenseNumbering(i) ==
    LET sm == SerialMappingOf(i)
        units == structures[i].units
    IN  /\ Len(sm.unitElementCount) = Len(units)
        /\ Len(sm.unitIndices) = elementCount(structures[i])
        /\ Len(sm.elementIndices) = elementCount(structures[i])
        /\ \A u \in 1..Len(units) :
            /\ sm.unitElementCount[u] = OffsetOf(i, u)
            /\ \A j \in 0..(Len(units[u].elements) - 1) :
                  sm.unitIndices[OffsetOf(i, u) + j + 1] = u - 1

\* C16 as stated: a dense numbering in which elementIndices holds j, the
\* position of the element within its unit.
C16_SerialMapping_LocalIndex ==
    \A i \in 1..Len(structures) : IsDefined(structures[i].props.serialMapping) =>
        /\ DenseNumbering(i)
        /\ \A u \in 1..Len(structures[i].units) :
              \A j \in 0..(Len(structures[i].units[u].elements) - 1) :
                  SerialMappingOf(i).elementIndices[OffsetOf(i, u) + j + 1] = j

\* C16, amended: a dense numbering in which elementIndices holds
\* elements[j], the element index stored at position j of the unit.
C16_SerialMapping ==
    \A i \in 1..Len(structures) : IsDefined(structures[i].props.serialMapping) =>
        /\ DenseNumbering(i)
        /\ \A u \in 1..Len(structures[i].units) :
              \A j \in 0..(Len(structures[i].units[u].elements) - 1) :
                  SerialMappingOf(i).elementIndices[OffsetOf(i, u) + j + 1]
                      = structures[i].units[u].elements[j + 1]

\* The units 0 = {2, 5}, 1 = {4} and 3 = {0, 3, 4}, given unsorted.
C16_Witness ==
    \E i \in Constructed :
        /\ returned.op = "serialMapping" /\ returned.s = i
        /\ Len(log[i].units) = 3 /\ log[i].units[1].id = 3
        /\ IsDefined(structures[i].props.serialMapping)
        /\ returned.value = SerialMappingOf(i)
        /\ SerialMappingOf(i) = [unitElementCount |-> <<0, 2, 3>>,
                                 unitIndices |-> <<0, 0, 1, 2, 2, 2>>,
                                 elementIndices |-> <<2, 5, 4, 0, 3, 4>>]


\* The last call was Structure.transform(s, mat).
TransformCalled(mat) == returned'.op = "transform" /\ returned'.mat = mat

\* C17: Structure.transform(s, identity) returns s itself; no Structure is
\* created and no Structure changes.
C17_IdentityTransformReturnsSame ==
    [][TransformCalled("identity") =>
          /\ returned'.outcome = "return" /\ returned'.value = returned'.s
          /\ structures' = structures]_vars

\* The identity transform of a Structure of three units whose serial
\* mapping is cached.
C17_Witness ==
    /\ returned.op = "transform" /\ returned.mat = "identity" /\ returned.s = 1
    /\ returned.outcome = "return" /\ returned.value = 1
    /\ Len(structures[1].units) = 3
    /\ IsDefined(structures[1].props.serialMapping)

\* C18: Structure.transform with a matrix that is neither the identity nor
\* a rotation plus translation throws; no Structure is created and no
\* Structure changes.
C18_InvalidTransformThrows ==
    [][\A mat \in Mats :
          (TransformCalled(mat) /\ ~isIdentity(mat) /\ ~isRotationAndTranslation(mat)) =>
              /\ returned'.outcome = "throw"
              /\ structures' = structures]_vars

\* A shear applied to a Structure that is itself a transformed copy.
C18_Witness ==
    /\ returned.op = "transform" /\ returned.mat = "shear" /\ returned.s = 2
    /\ returned.outcome = "throw"
    /\ Len(structures) = 2
    /\ parent(2) = Some(1)
    /\ Len(structures[2].units) = 3
    /\ coordinateSystem(2) = SymmetryOperatorCreate("rigid")


(***************************************************************************)
(* Structure.ofModel and Structure.ofTrajectory.  A model is its atomic    *)
(* hierarchy (the offsets of the residue and of the chain segments, the    *)
(* entity and the auth_asym_id of every chain, the entities that are       *)
(* water) and its coarse hierarchy.  The grid is free to return any        *)
(* buckets, so ofModel and ofTrajectory are the sets of the Structures     *)
(* they can return.                                                        *)
(***************************************************************************)

\* the number of atoms of a model of a trajectory, and the number of models
MaxModelAtoms == 3
MaxTrajectory == 2

\* chains.count, chains.offsets[c + 1] - chains.offsets[c]
chainCount(m) == ArrayLen(m.chainAtomSegments) - 1
chainSize(m, c) == m.chainAtomSegments[c + 1] - m.chainAtomSegments[c]

\* AtomicHierarchy.chainResidueCount(model.atomicHierarchy, c)
chainResidueCount(m, c) ==
    Cardinality({i \in 0..(ArrayLen(m.residueAtomSegments) - 2) :
                    /\ m.chainAtomSegments[c] <= m.residueAtomSegments[i]
                    /\ m.residueAtomSegments[i] < m.chainAtomSegments[c + 1]})

\* isWaterChain(model, chainIndex)
isWaterChain(m, c) == m.entityOfChain[c] \in m.waterEntities

\* A merge that compares the entities only.
MergeChainsOfEntity(m, c, single, multi) ==
    LET run == {d \in c..(chainCount(m) - 1) :
                   \A x \in c..(d - 1) :
                       /\ chainSize(m, x) = 1 /\ chainSize(m, x + 1) = 1
                       /\ m.entityOfChain[x] = m.entityOfChain[x + 1]}
        last == CHOOSE d \in run : \A x \in run : x <= d
    IN  [c |-> last,
         singleAtomResidues |->
            single \/ (c + 1 < chainCount(m) /\ chainSize(m, c) = 1 /\ chainSize(m, c + 1) = 1),
         multiChain |-> last > c]

\* ofModel: the while loop that merges consecutive single atom chains of one
\* entity and one auth_asym_id, from chain c on
RECURSIVE MergeChains(_, _, _, _)
MergeChains(m, c, single, multi) ==
    IF c + 1 < chainCount(m) /\ chainSize(m, c) = 1 /\ chainSize(m, c + 1) = 1
    THEN IF m.entityOfChain[c] # m.entityOfChain[c + 1]
             THEN [c |-> c, singleAtomResidues |-> TRUE, multiChain |-> multi]
         ELSE IF m.auth_asym_id[c] # m.auth_asym_id[c + 1]
             THEN [c |-> c, singleAtomResidues |-> TRUE, multiChain |-> multi]
         ELSE MergeChains(m, c + 1, TRUE, TRUE)
    ELSE [c |-> c, singleAtomResidues |-> single, multiChain |-> multi]

\* ofModel: the body of the loop over the chains for the chain group that
\* ends at merged.c: the builders it can leave
ChainGroup(m, sb, start, merged) ==
    LET elements == ofBounds(start, m.chainAtomSegments[merged.c + 1])
    IN  IF merged.singleAtomResidues
            THEN {partitionAtomicUnitByAtom(m, elements, sb, merged.multiChain, buckets) :
                    buckets \in Buckets(ArrayLen(elements))}
        ELSE IF ArrayLen(elements) > LargeChain \/ isWaterChain(m, merged.c)
            THEN {partitionAtomicUnitByResidue(m, elements, sb, merged.multiChain, buckets) :
                    buckets \in Buckets(ArrayLen(startIndices(m, elements)))}
        ELSE {addUnit(sb, "atomic", m.id, "default", elements,
                      IF merged.multiChain THEN {"MultiChain"} ELSE {})}

\* ofModel: the loop over the chains from chain c on
RECURSIVE Chains(_, _, _)
Chains(m, sb, c) ==
    IF c >= chainCount(m) THEN {sb}
    ELSE LET merged == MergeChains(m, c, chainResidueCount(m, c) = chainSize(m, c), FALSE)
         IN  UNION {Chains(m, next, merged.c + 1) :
                       next \in ChainGroup(m, sb, m.chainAtomSegments[c], merged)}

\* addCoarseUnits(builder, model, elements, kind), from segment cI on
RECURSIVE addCoarseUnits(_, _, _, _, _)
addCoarseUnits(sb, m, offsets, kind, cI) ==
    IF cI >= ArrayLen(offsets) - 1 THEN sb
    ELSE addCoarseUnits(addUnit(sb, kind, m.id, "default",
                                ofBounds(offsets[cI], offsets[cI + 1]), {}),
                        m, offsets, kind, cI + 1)

\* ofModel: the coarse units
CoarseUnits(m, sb) ==
    LET cs == m.coarseHierarchy
        spheres == IF ArrayLen(cs.spheres) - 1 > 0
                       THEN addCoarseUnits(sb, m, cs.spheres, "spheres", 0) ELSE sb
    IN  IF ~cs.isDefined THEN sb
        ELSE IF ArrayLen(cs.gaussians) - 1 > 0
            THEN addCoarseUnits(spheres, m, cs.gaussians, "gaussians", 0)
        ELSE spheres

\* Structure.ofModel(model)
ofModel(m) ==
    {getStructure(CoarseUnits(m, sb)) :
        sb \in Chains(m, NewStructureBuilder([NoProps EXCEPT !.label = Some(m.label)]), 0)}

\* A copy that keeps the invariantId and the chainGroupId of every unit.
CopyUnitsAsTheyAre(units, from, count, j) ==
    units \o [k \in 1..Len(from) |->
                UnitCreate(Len(units) + k - 1, from[k].invariantId, from[k].chainGroupId,
                           from[k].traits, from[k].kind, from[k].model, from[k].operator,
                           from[k].elements)]

\* ofTrajectory: the inner loop, the units of one model's Structure copied
\* behind `units` from unit j on
RECURSIVE CopyUnits(_, _, _, _)
CopyUnits(units, from, count, j) ==
    IF j > Len(from) THEN units
    ELSE LET u == from[j]
         IN  CopyUnits(Append(units, UnitCreate(Len(units), u.invariantId + count,
                                                u.chainGroupId + count, u.traits, u.kind,
                                                u.model, u.operator, u.elements)),
                       from, count, j + 1)

\* ofTrajectory: the outer loop from model i on; count is units.length as
\* the model is entered
RECURSIVE TrajectoryUnits(_, _, _)
TrajectoryUnits(trajectory, i, units) ==
    IF i > Len(trajectory) THEN {units}
    ELSE UNION {TrajectoryUnits(trajectory, i + 1,
                                CopyUnits(units, structure.units, Len(units), 1)) :
                   structure \in ofModel(trajectory[i])}

\* Structure.Empty
Empty_Structure == NewStructure(<<>>, NoProps)

\* Structure.ofTrajectory(trajectory)
ofTrajectory(trajectory) ==
    IF Len(trajectory) = 0 THEN {Empty_Structure}
    ELSE {NewStructure(units, [NoProps EXCEPT
                                  !.representativeModel = Some(trajectory[1]),
                                  !.label = Some(trajectory[1].label)]) :
            units \in TrajectoryUnits(trajectory, 1, <<>>)}

\* A model of MaxModelAtoms atoms with the given inner chain and residue
\* boundaries.  The chains of a "polymer" alternate between two entities and
\* come with coarse spheres and gaussians; the chains of "ions" share one
\* entity and one auth_asym_id; those of "ligands" share the entity and
\* alternate between two auth_asym_ids; those of "water" are of one water
\* entity.
TrajectoryModel(id, chainCuts, residueCuts, flavour) ==
    LET chains == OffsetsOf(chainCuts, MaxModelAtoms)
        cs == 0..(ArrayLen(chains) - 2)
    IN  [id |-> id, label |-> id,
         residueAtomSegments |-> OffsetsOf(residueCuts, MaxModelAtoms),
         chainAtomSegments |-> chains,
         entityOfChain |-> [c \in cs |-> IF flavour = "polymer" THEN c % 2 ELSE 0],
         auth_asym_id |-> [c \in cs |-> IF flavour = "ligands" /\ c % 2 = 1 THEN "B" ELSE "A"],
         waterEntities |-> IF flavour = "water" THEN {0} ELSE {},
         coarseHierarchy |->
            IF flavour = "polymer"
            THEN [isDefined |-> TRUE, spheres |-> ArrayOf(<<0, 2>>),
                  gaussians |-> ArrayOf(<<0, 1>>)]
            ELSE [isDefined |-> FALSE, spheres |-> ArrayOf(<<0>>),
                  gaussians |-> ArrayOf(<<0>>)]]

\* The models at position i of a trajectory: chains made of whole residues.
ModelsAt(i) ==
    {TrajectoryModel(IF i = 1 THEN "m1" ELSE IF i = 2 THEN "m2" ELSE "m3",
                     cc[1], cc[2], flavour) :
        cc \in {x \in (SUBSET (1..(MaxModelAtoms - 1))) \X (SUBSET (1..(MaxModelAtoms - 1))) :
                  x[1] \subseteq x[2]},
        flavour \in {"polymer", "ions", "ligands", "water"}}

\* The trajectories of n models.
TrajectoriesOf(n) ==
    {t \in [1..n -> UNION {ModelsAt(i) : i \in 1..n}] : \A i \in 1..n : t[i] \in ModelsAt(i)}

\* `model` is the trajectory, `structures` what ofTrajectory returned.
TrajectoryInit ==
    /\ \E n \in 0..MaxTrajectory : model \in TrajectoriesOf(n)
    /\ structures = <<>>
    /\ returned = <<>>
    /\ log = <<>>
    /\ chain = Idle /\ builder = Idle /\ partitioned = Idle
    /\ QueryIdle /\ GraphIdle

\* Structure.ofTrajectory(trajectory)
OfTrajectory ==
    /\ structures = <<>>
    /\ \E s \in ofTrajectory(model) : structures' = <<s>>
    /\ UNCHANGED <<returned, log, model, chain, builder, partitioned, queryVars, graphVars>>

TrajectoryNext == OfTrajectory

SpecTrajectory == TrajectoryInit /\ [][TrajectoryNext]_vars

\* C20: the units of the Structure ofTrajectory returns have the ids 0, 1,
\* ... in order, and two units that come from different models of the
\* trajectory share neither their invariantId nor their chainGroupId.
C20_TrajectoryIdsUnique ==
    (structures # <<>> /\ Len(model) > 0) =>
        LET units == structures[1].units
        IN  /\ \A k \in 1..Len(units) : units[k].id = k - 1
            /\ \A k1, k2 \in 1..Len(units) :
                  units[k1].model # units[k2].model =>
                      /\ units[k1].invariantId # units[k2].invariantId
                      /\ units[k1].chainGroupId # units[k2].chainGroupId

\* Three merged single atom chains split into three units of one chain
\* group, followed by a second model with a whole-chain unit and a
\* partitioned unit.
C20_Witness ==
    /\ structures # <<>> /\ Len(model) = 2
    /\ LET units == structures[1].units
       IN  /\ Len(units) >= 5
           /\ \A k \in 1..3 : /\ units[k].model = "m1"
                               /\ units[k].chainGroupId = 0
                               /\ units[k].traits = {"MultiChain", "Partitioned"}
           /\ units[4].model = "m2" /\ units[4].chainGroupId = 3 /\ units[4].traits = {}
           /\ units[4].invariantId = 3
           /\ ArrayLen(units[4].elements) = 2
           /\ units[5].chainGroupId = 4
           /\ representativeModel(1) = Some(model[1])


(***************************************************************************)
(* Structure.ofModel on one model: which chains end up in one chain group. *)
(***************************************************************************)

\* The models decomposed: any chains made of whole residues, any entity
\* and any auth_asym_id per chain, entity 0 water or not.
OfModelModels ==
    UNION {{[base EXCEPT !.entityOfChain = e, !.auth_asym_id = a, !.waterEntities = w] :
               e \in [DOMAIN base.entityOfChain -> 0..1],
               a \in [DOMAIN base.auth_asym_id -> {"A", "B"}],
               w \in {{}, {0}}} :
           base \in {TrajectoryModel("m1", cc[1], cc[2], "ions") :
                       cc \in {x \in (SUBSET (1..(MaxModelAtoms - 1)))
                                        \X (SUBSET (1..(MaxModelAtoms - 1))) :
                                 x[1] \subseteq x[2]}}}

\* `model` is the model, `structures` what ofModel returned.
OfModelInit ==
    /\ model \in OfModelModels
    /\ structures = <<>>
    /\ returned = <<>>
    /\ log = <<>>
    /\ chain = Idle /\ builder = Idle /\ partitioned = Idle
    /\ QueryIdle /\ GraphIdle

\* Structure.ofModel(model)
OfModel ==
    /\ structures = <<>>
    /\ \E s \in ofModel(model) : structures' = <<s>>
    /\ UNCHANGED <<returned, log, model, chain, builder, partitioned, queryVars, graphVars>>

OfModelNext == OfModel

SpecOfModel == OfModelInit /\ [][OfModelNext]_vars

\* The chains of the model, the chain of an atom, and the units of the
\* returned Structure that hold atom a.
ModelChains == 0..(chainCount(model) - 1)
ChainOf(a) == SegmentIndex(model.chainAtomSegments, a)
UnitsWith(a) ==
    {k \in 1..Len(structures[1].units) :
        \E p \in DOMAIN structures[1].units[k].elements :
            structures[1].units[k].elements[p] = a}

\* Chains c and d are in one chain group: an atom of c and an atom of d are
\* in units of one chainGroupId.
SameGroup(c, d) ==
    \E a, b \in 0..(MaxModelAtoms - 1) :
        /\ ChainOf(a) = c /\ ChainOf(b) = d
        /\ \E k \in UnitsWith(a), n \in UnitsWith(b) :
              structures[1].units[k].chainGroupId = structures[1].units[n].chainGroupId

\* Every unit that holds an atom of chain c is flagged MultiChain.
FlaggedMultiChain(c) ==
    \A a \in 0..(MaxModelAtoms - 1) : ChainOf(a) = c =>
        \A k \in UnitsWith(a) : "MultiChain" \in structures[1].units[k].traits

SameEntityAndAuth(c, d) ==
    /\ model.entityOfChain[c] = model.entityOfChain[d]
    /\ model.auth_asym_id[c] = model.auth_asym_id[d]

\* Chains in one chain group never differ in entity or in auth_asym_id.
GroupsAreUniform ==
    \A c, d \in ModelChains : SameGroup(c, d) => SameEntityAndAuth(c, d)

\* Consecutive chains that both satisfy `single` are merged exactly when
\* they share entity and auth_asym_id, and a chain that satisfies it is
\* flagged MultiChain exactly when it is merged with a neighbour.
MergedRuns(single(_)) ==
    /\ \A c \in ModelChains : (c + 1 \in ModelChains /\ single(c) /\ single(c + 1)) =>
          (SameGroup(c, c + 1) <=> SameEntityAndAuth(c, c + 1))
    /\ \A c \in ModelChains : single(c) =>
          (FlaggedMultiChain(c) <=>
              \E d \in {c - 1, c + 1} \cap ModelChains : single(d) /\ SameEntityAndAuth(c, d))

isSingleAtomResidueChain(c) == chainResidueCount(model, c) = chainSize(model, c)
isSingleAtomChain(c) == chainSize(model, c) = 1

\* C21 as stated: the chains merged are the consecutive single-atom-residue
\* chains (residue count equals atom count) of one entity and one
\* auth_asym_id.
C21_MergedRuns_SingleAtomResidues ==
    structures # <<>> => (MergedRuns(isSingleAtomResidueChain) /\ GroupsAreUniform)

\* C21, amended: the chains merged are the consecutive chains of exactly one
\* atom each of one entity and one auth_asym_id; the units of a merged run
\* are flagged MultiChain, and chains that differ in entity or in
\* auth_asym_id are never in one group.
C21_MergedRuns ==
    structures # <<>> => (MergedRuns(isSingleAtomChain) /\ GroupsAreUniform)

\* Three chains of one atom each, of one entity, with the auth_asym_ids A,
\* A and B, the first two split into two units by the grid.
C21_Witness ==
    /\ structures # <<>>
    /\ chainCount(model) = 3
    /\ SeqOf(model.auth_asym_id) = <<"A", "A", "B">>
    /\ SeqOf(model.entityOfChain) = <<0, 0, 0>>
    /\ Len(structures[1].units) = 3
    /\ [k \in 1..3 |-> structures[1].units[k].chainGroupId] = <<0, 0, 1>>
    /\ [k \in 1..3 |-> structures[1].units[k].traits]
          = <<{"MultiChain", "Partitioned"}, {"MultiChain", "Partitioned"}, {}>>


(***************************************************************************)
(* Structure.ElementLocationIterator                                       *)
(***************************************************************************)

\* the most units of an iterated Structure
MaxIteratedUnits == 3

\* The element sets of the units: one, two or three elements.
IteratedElements == {ArrayOf(<<5>>), ArrayOf(<<0, 2>>), ArrayOf(<<1, 3, 4>>)}

\* The Structures iterated: up to MaxIteratedUnits units, none of them empty.
IteratedStructures ==
    UNION {{NewStructure([k \in 1..n |-> StructureUnit(k - 1, M1, sets[k])], NoProps) :
               sets \in [1..n -> IteratedElements]} : n \in 0..MaxIteratedUnits}

\* StructureElement.Location.create(): no unit yet, element 0
LocationCreate == [unit |-> Undefined, element |-> 0]

\* new ElementLocationIterator(structure)
NewElementLocationIterator(structure) ==
    LET hasNext == elementCount(structure) > 0
    IN  [current  |-> IF hasNext THEN [LocationCreate EXCEPT !.unit = Some(structure.units[1])]
                      ELSE LocationCreate,
         unitIndex |-> 0,
         elements |-> IF hasNext THEN Some(structure.units[1].elements) ELSE Undefined,
         maxIdx   |-> IF hasNext THEN ArrayLen(structure.units[1].elements) - 1 ELSE 0,
         idx      |-> -1,
         hasNext  |-> hasNext]

\* ElementLocationIterator.advance
advance(it, structure) ==
    IF it.idx < it.maxIdx
    THEN IF it.idx + 1 = it.maxIdx
         THEN [it EXCEPT !.idx = @ + 1,
                         !.hasNext = it.unitIndex + 1 < Len(structure.units)]
         ELSE [it EXCEPT !.idx = @ + 1]
    ELSE IF it.unitIndex + 1 >= Len(structure.units)
         THEN [it EXCEPT !.idx = 0, !.unitIndex = @ + 1, !.hasNext = FALSE]
         ELSE LET unit == structure.units[it.unitIndex + 2]
              IN  [it EXCEPT !.idx = 0, !.unitIndex = @ + 1,
                             !.current.unit = Some(unit),
                             !.elements = Some(unit.elements),
                             !.maxIdx = ArrayLen(unit.elements) - 1]

\* ElementLocationIterator.move: the iterator after the call; the location
\* returned is its `current`.
move(it, structure) ==
    LET advanced == advance(it, structure)
    IN  [advanced EXCEPT !.current.element = ValueOf(advanced.elements)[advanced.idx]]

\* `structures` holds the Structure, `returned` the iterator once made and
\* `log` the locations as move() returned them.
IteratorInit ==
    /\ \E s \in IteratedStructures : structures = <<s>>
    /\ returned = Undefined
    /\ log = <<>>
    /\ PartitionIdle /\ QueryIdle /\ GraphIdle

\* const it = structure.elementLocations()
ElementLocations ==
    /\ returned = Undefined
    /\ returned' = Some(NewElementLocationIterator(structures[1]))
    /\ UNCHANGED <<structures, log>>
    /\ StructureOnly

\* while (it.hasNext) { const l = it.move(); ... }
Move ==
    /\ IsDefined(returned)
    /\ ValueOf(returned).hasNext
    /\ \E moved \in {move(ValueOf(returned), structures[1])} :
          /\ returned' = Some(moved)
          /\ log' = Append(log, [unit |-> ValueOf(moved.current.unit).id,
                                 element |-> moved.current.element])
    /\ UNCHANGED structures
    /\ StructureOnly

IteratorNext == ElementLocations \/ Move

SpecIterator == IteratorInit /\ [][IteratorNext]_vars

\* Every (unit, element) pair of the Structure, in unit order and element
\* order.
RECURSIVE LocationsFrom(_, _)
LocationsFrom(structure, k) ==
    IF k > Len(structure.units) THEN <<>>
    ELSE [j \in 1..ArrayLen(structure.units[k].elements) |->
             [unit |-> structure.units[k].id, element |-> structure.units[k].elements[j - 1]]]
         \o LocationsFrom(structure, k + 1)

\* The locations returned so far are the first locations of the Structure, in
\* order, and hasNext is false exactly when all of them were returned.
IteratesOnce ==
    IsDefined(returned) =>
        LET all_ == LocationsFrom(structures[1], 1)
        IN  /\ Len(log) <= Len(all_)
            /\ \A i \in DOMAIN log : log[i] = all_[i]
            /\ Len(all_) = elementCount(structures[1])
            /\ ~ValueOf(returned).hasNext <=> Len(log) = elementCount(structures[1])

\* C23: for a Structure whose units are all non-empty, of any sizes, calling
\* move() while hasNext is true yields every (unit, element) pair exactly
\* once, in order: the number of moves is elementCount and hasNext is false
\* exactly after the last element was returned.
C23_IteratesEveryElementOnce == IteratesOnce

\* The last unit has one element and is not the first unit.
LastUnitIsLateSingleton ==
    /\ Len(structures[1].units) > 1
    /\ ArrayLen(structures[1].units[Len(structures[1].units)].elements) = 1

\* The iteration is as expected for every other Structure.
IteratesOnceUnlessLateSingleton == LastUnitIsLateSingleton \/ IteratesOnce

\* Units of two elements and of one element: hasNext was still true after
\* the three elements were returned, and the fourth move returned the last
\* location again.
C23_Witness ==
    /\ IsDefined(returned)
    /\ Len(structures[1].units) = 2
    /\ SeqOf(structures[1].units[1].elements) = <<0, 2>>
    /\ SeqOf(structures[1].units[2].elements) = <<5>>
    /\ elementCount(structures[1]) = 3
    /\ ~ValueOf(returned).hasNext
    /\ Len(log) = 4
    /\ log[3] = [unit |-> 1, element |-> 5]
    /\ log[4] = log[3]

=============================================================================
